---- MODULE Spec2Model ----
(***************************************************************************)
(* A model of the OCI launcher of apptainer                                *)
(* (internal/pkg/runtime/launcher/oci): the reverse ID mapping for nested  *)
(* user namespaces, the capability sets of the container process and the   *)
(* composition of its environment.                                         *)
(*                                                                         *)
(* Each component is a pure computation over the launch options and a      *)
(* snapshot of the host; it is modelled by a specification whose initial   *)
(* states enumerate the inputs and whose actions are the calls.            *)
(***************************************************************************)
EXTENDS Integers, Sequences, FiniteSets, TLC

VARIABLES
    \* ---- getReverseUserMaps / reverseMapByRange ----
    idPc,          \* "idle" | "call" | "done"
    targetUID,     \* uint32 argument
    targetGID,     \* uint32 argument
    subuidRange,   \* what fakeroot.GetIDRange(SubUIDFile, hostUID) gives
    subgidRange,   \* what fakeroot.GetIDRange(SubGIDFile, hostUID) gives
    uidMap,        \* returned []specs.LinuxIDMapping (<<>> models nil)
    gidMap,        \* returned []specs.LinuxIDMapping (<<>> models nil)
    idErr,         \* returned err: "nil" or the kind of error
    \* ---- Launcher.getProcessCapabilities ----
    capPc,         \* "idle" | "call" | "done"
    cfg,           \* l.cfg: NoPrivs, KeepPrivs, AddCaps, DropCaps
    capTargetUID,  \* the targetUID argument
    hostEffective, \* what capabilities.GetProcessEffective gives, as names
    caps,          \* returned *specs.LinuxCapabilities (NoCaps models nil)
    capErr,        \* returned err
    \* ---- getProcessEnv ----
    envPc,         \* "idle" | "call" | "done"
    imageEnv,      \* imageSpec.Config.Env: a list of strings
    runtimeEnv,    \* the runtimeEnv argument: a map from keys to values
    processEnv,    \* the returned list of KEY=VALUE strings
    \* ---- Launcher.getProcess ----
    procPc,        \* "idle" | "call" | "done"
    launcher,      \* the Launcher fields besides cfg: homeDest, nativeSIF
    imgSpec,       \* imgSpec.Config: Env, User, Entrypoint, Cmd
    ep,            \* launcher.ExecParams: Image, Action, Process, Args, and
                   \* what ActionScriptArgs gives
    bundle,        \* the bundle argument
    user,          \* the specs.User argument
    host,          \* the host as the call finds it: os.Environ(), the
                   \* environment file, whether stdin is a terminal
    process,       \* returned *specs.Process (NoProcess models nil)
    procErr,       \* returned err
    \* ---- minimalSpec / addNamespaces ----
    nsPc,          \* "idle" | "call" | "done"
    ns,            \* launcher.Namespaces: IPC, Net, PID, User, UTS
    rootless,      \* what rootless.Getuid reads: _CONTAINERS_ROOTLESS_UID
                   \* and the effective UID
    spec,          \* the *specs.Spec argument: Linux.Namespaces, a slice
    nsErr,         \* returned err
    \* ---- two launches over the package variables ----
    pkgNamespaces, \* the array behind the package variable defaultNamespaces
    pkgCaps,       \* the array behind the package variable oci.DefaultCaps
    launchPc,      \* per launch: "idle" | "start" | "spec" | "ns" | "caps" | "done"
    launchOpts,    \* per launch: its namespace flags, add and drop lists and
                   \* target UID
    launchSpec,    \* per launch: spec.Linux.Namespaces, a slice
    launchSlice,   \* per launch: the local caps of getProcessCapabilities
                   \* after the append, a slice
    launchCaps,    \* per launch: the returned *specs.LinuxCapabilities
    \* ---- apptainerEnvMap ----
    mapPc,         \* "idle" | "call" | "done"
    osEnviron,     \* os.Environ(): a list of NAME=VALUE strings
    apptainerEnv,  \* the returned map
    \* ---- lockBundle / releaseBundle ----
    lockFile,      \* whether <bundle>/.apptainer-oci.lock exists
    dirLock,       \* the process holding the exclusive lock on the bundle
                   \* directory, or "none"
    bundlePc,      \* per process: "idle" | "stat" | "lock" | "locked" |
                   \* "unlock" | "done"
    bundleOp,      \* per process: "lockBundle" | "releaseBundle"
    bundleErr,     \* per process: the err its call returns
    lockHolders,   \* history: the processes whose lockBundle returned nil
                   \* since the last releaseBundle that returned nil
    \* ---- lockSection ----
    readLocks,     \* the package map readLocks: path -> list of sections
    writeLocks,    \* the package map writeLocks: path -> list of sections
    secPc,         \* "idle" | "call" | "done"
    secImage,      \* the *Image argument: Path, Writable
    secSection,    \* the Section argument: Offset, Size
    secLockErr,    \* what br.Lock() / br.RLock() gives this call
    secErr         \* returned err

idVars == <<idPc, targetUID, targetGID, subuidRange, subgidRange, uidMap, gidMap, idErr>>

capVars == <<capPc, cfg, capTargetUID, hostEffective, caps, capErr>>

envVars == <<envPc, imageEnv, runtimeEnv, processEnv>>

procVars == <<procPc, launcher, imgSpec, ep, bundle, user, host, process, procErr>>

nsVars == <<nsPc, ns, rootless, spec, nsErr>>

launchVars == <<pkgNamespaces, pkgCaps, launchPc, launchOpts, launchSpec, launchSlice, launchCaps>>

mapVars == <<mapPc, osEnviron, apptainerEnv>>

bundleVars == <<lockFile, dirLock, bundlePc, bundleOp, bundleErr, lockHolders>>

sectionVars == <<readLocks, writeLocks, secPc, secImage, secSection, secLockErr, secErr>>

vars == <<idPc, targetUID, targetGID, subuidRange, subgidRange, uidMap, gidMap, idErr,
          capPc, cfg, capTargetUID, hostEffective, caps, capErr,
          envPc, imageEnv, runtimeEnv, processEnv,
          procPc, launcher, imgSpec, ep, bundle, user, host, process, procErr,
          nsPc, ns, rootless, spec, nsErr,
          pkgNamespaces, pkgCaps, launchPc, launchOpts, launchSpec, launchSlice, launchCaps,
          mapPc, osEnviron, apptainerEnv,
          lockFile, dirLock, bundlePc, bundleOp, bundleErr, lockHolders,
          readLocks, writeLocks, secPc, secImage, secSection, secLockErr, secErr>>

(***************************************************************************)
(* The IDs and sizes are uint32 in the code.  reverseMapByRange adds and   *)
(* subtracts only under target < size, where target + 1 <= size and        *)
(* size - target >= 1, so none of its operations can wrap; the model       *)
(* enumerates IDs up to HugeID and writes the arithmetic unreduced.        *)
(***************************************************************************)
HugeID == 2000000000

\* Sequence helpers
Range(s) == {s[i] : i \in 1..Len(s)}

(***************************************************************************)
(* Reverse ID mapping                                                      *)
(***************************************************************************)

\* The floor getReverseUserMaps puts on the sub-ID range size.
MinSubIDRange == 65536

\* How far the enumerated targets, range sizes and probed container IDs
\* spread around the breakpoints of the mapping (0, target, range size).
MaxDelta == 2

Around(x) == {y \in (x - MaxDelta)..(x + MaxDelta) : y >= 0 /\ y <= HugeID}

\* Sub-ID range sizes a host can have: below the floor, at it, above it, and
\* the largest uint32.
RangeSizes == {0, 1} \cup Around(MinSubIDRange) \cup {100000, HugeID}

\* Target IDs: root, small IDs, nobody, IDs around the range sizes, a
\* huge one.
TargetIDs == Around(0) \cup {1000} \cup Around(MinSubIDRange)
                \cup Around(100000) \cup Around(HugeID)

\* Outcomes of fakeroot.GetIDRange: an error, or a range of some size.
IDRangeResults == {[ok |-> FALSE, Size |-> 0]} \cup {[ok |-> TRUE, Size |-> s] : s \in RangeSizes}

LinuxIDMapping(c, h, s) == [ContainerID |-> c, HostID |-> h, Size |-> s]

\* A bug ReverseUIDMap could have: the low block mapped from host ID 0 on,
\* without the offset that skips host ID 0.
ReverseUIDMap_NoOffset(tUID, subuidSize) ==
    IF tUID < subuidSize
    THEN << LinuxIDMapping(0, 0, tUID),
            LinuxIDMapping(tUID, 0, 1),
            LinuxIDMapping(tUID + 1, tUID + 1, subuidSize - tUID) >>
    ELSE << LinuxIDMapping(0, 0, subuidSize),
            LinuxIDMapping(tUID, 0, 1) >>

\* A bug ReverseUIDMap could have: the remainder block one ID short, ending
\* at container ID range size - 1.
ReverseUIDMap_ShortRemainder(tUID, subuidSize) ==
    IF tUID < subuidSize
    THEN << LinuxIDMapping(0, 1, tUID),
            LinuxIDMapping(tUID, 0, 1),
            LinuxIDMapping(tUID + 1, tUID + 1, subuidSize - tUID - 1) >>
    ELSE << LinuxIDMapping(0, 1, subuidSize),
            LinuxIDMapping(tUID, 0, 1) >>

\* reverseMapByRange, the UID half.
ReverseUIDMap(tUID, subuidSize) ==
    IF tUID < subuidSize
    THEN << LinuxIDMapping(0, 1, tUID),
            LinuxIDMapping(tUID, 0, 1),
            LinuxIDMapping(tUID + 1, tUID + 1, subuidSize - tUID) >>
    ELSE << LinuxIDMapping(0, 1, subuidSize),
            LinuxIDMapping(tUID, 0, 1) >>

\* A bug ReverseGIDMap could have: the remainder block starting at the target
\* itself instead of the ID after it.
ReverseGIDMap_RemainderFromTarget(tGID, subgidSize) ==
    IF tGID < subgidSize
    THEN << LinuxIDMapping(0, 1, tGID),
            LinuxIDMapping(tGID, 0, 1),
            LinuxIDMapping(tGID, tGID + 1, subgidSize - tGID) >>
    ELSE << LinuxIDMapping(0, 1, subgidSize),
            LinuxIDMapping(tGID, 0, 1) >>

\* A bug ReverseGIDMap could have: beyond the range, the low block one ID
\* longer than the range.
ReverseGIDMap_LongLowBlock(tGID, subgidSize) ==
    IF tGID < subgidSize
    THEN << LinuxIDMapping(0, 1, tGID),
            LinuxIDMapping(tGID, 0, 1),
            LinuxIDMapping(tGID + 1, tGID + 1, subgidSize - tGID) >>
    ELSE << LinuxIDMapping(0, 1, subgidSize + 1),
            LinuxIDMapping(tGID, 0, 1) >>

\* A bug ReverseGIDMap could have: the remainder block taken from host IDs
\* one lower, starting at the host ID that the low block ends with.
ReverseGIDMap_RemainderHostOneLow(tGID, subgidSize) ==
    IF tGID < subgidSize
    THEN << LinuxIDMapping(0, 1, tGID),
            LinuxIDMapping(tGID, 0, 1),
            LinuxIDMapping(tGID + 1, tGID, subgidSize - tGID) >>
    ELSE << LinuxIDMapping(0, 1, subgidSize),
            LinuxIDMapping(tGID, 0, 1) >>

\* reverseMapByRange, the GID half.
ReverseGIDMap(tGID, subgidSize) ==
    IF tGID < subgidSize
    THEN << LinuxIDMapping(0, 1, tGID),
            LinuxIDMapping(tGID, 0, 1),
            LinuxIDMapping(tGID + 1, tGID + 1, subgidSize - tGID) >>
    ELSE << LinuxIDMapping(0, 1, subgidSize),
            LinuxIDMapping(tGID, 0, 1) >>

reverseMapByRange(tUID, tGID, subuidSize, subgidSize) ==
    [uidMap |-> ReverseUIDMap(tUID, subuidSize),
     gidMap |-> ReverseGIDMap(tGID, subgidSize)]

\* A bug getReverseUserMaps could have: the sub-GID range size never checked.
getReverseUserMaps_NoGidSizeCheck(tUID, tGID, uidRange, gidRange) ==
    IF ~uidRange.ok
    THEN [uidMap |-> <<>>, gidMap |-> <<>>, err |-> "subuid lookup"]
    ELSE IF uidRange.Size < MinSubIDRange
    THEN [uidMap |-> <<>>, gidMap |-> <<>>, err |-> "subuid range size"]
    ELSE IF ~gidRange.ok
    THEN [uidMap |-> <<>>, gidMap |-> <<>>, err |-> "subgid lookup"]
    ELSE [uidMap |-> reverseMapByRange(tUID, tGID, uidRange.Size, gidRange.Size).uidMap,
          gidMap |-> reverseMapByRange(tUID, tGID, uidRange.Size, gidRange.Size).gidMap,
          err |-> "nil"]

\* A bug getReverseUserMaps could have: no floor on the range sizes.
getReverseUserMaps_NoFloor(tUID, tGID, uidRange, gidRange) ==
    IF ~uidRange.ok
    THEN [uidMap |-> <<>>, gidMap |-> <<>>, err |-> "subuid lookup"]
    ELSE IF ~gidRange.ok
    THEN [uidMap |-> <<>>, gidMap |-> <<>>, err |-> "subgid lookup"]
    ELSE [uidMap |-> reverseMapByRange(tUID, tGID, uidRange.Size, gidRange.Size).uidMap,
          gidMap |-> reverseMapByRange(tUID, tGID, uidRange.Size, gidRange.Size).gidMap,
          err |-> "nil"]

\* getReverseUserMaps as a function of its arguments and of what the two
\* GetIDRange calls give.
getReverseUserMaps(tUID, tGID, uidRange, gidRange) ==
    IF ~uidRange.ok
    THEN [uidMap |-> <<>>, gidMap |-> <<>>, err |-> "subuid lookup"]
    ELSE IF uidRange.Size < MinSubIDRange
    THEN [uidMap |-> <<>>, gidMap |-> <<>>, err |-> "subuid range size"]
    ELSE IF ~gidRange.ok
    THEN [uidMap |-> <<>>, gidMap |-> <<>>, err |-> "subgid lookup"]
    ELSE IF gidRange.Size < MinSubIDRange
    THEN [uidMap |-> <<>>, gidMap |-> <<>>, err |-> "subgid range size"]
    ELSE [uidMap |-> reverseMapByRange(tUID, tGID, uidRange.Size, gidRange.Size).uidMap,
          gidMap |-> reverseMapByRange(tUID, tGID, uidRange.Size, gidRange.Size).gidMap,
          err |-> "nil"]

\* How the kernel reads a mapping: the entries are consulted in order and the
\* first one whose container range holds the ID gives the host ID.
\* Resolve gives {h} for a mapped ID and {} for an unmapped one.
Covers(e, c) == e.ContainerID <= c /\ c < e.ContainerID + e.Size

Resolve(m, c) ==
    IF \E i \in 1..Len(m) : Covers(m[i], c)
    THEN LET i == CHOOSE j \in 1..Len(m) :
                    Covers(m[j], c) /\ \A k \in 1..(j - 1) : ~Covers(m[k], c)
         IN {m[i].HostID + (c - m[i].ContainerID)}
    ELSE {}

\* No getReverseUserMaps call is in progress.
IDIdle ==
    /\ idPc = "idle"
    /\ targetUID = 0
    /\ targetGID = 0
    /\ subuidRange = [ok |-> FALSE, Size |-> 0]
    /\ subgidRange = [ok |-> FALSE, Size |-> 0]
    /\ uidMap = <<>>
    /\ gidMap = <<>>
    /\ idErr = "nil"

IDCall ==
    /\ idPc = "call"
    /\ targetUID \in TargetIDs
    /\ targetGID \in TargetIDs
    /\ subuidRange \in IDRangeResults
    /\ subgidRange \in IDRangeResults
    /\ uidMap = <<>>
    /\ gidMap = <<>>
    /\ idErr = "nil"

\* The call returns an error and no maps.
GetReverseUserMapsFails ==
    /\ idPc = "call"
    /\ getReverseUserMaps(targetUID, targetGID, subuidRange, subgidRange).err # "nil"
    /\ idPc' = "done"
    /\ uidMap' = getReverseUserMaps(targetUID, targetGID, subuidRange, subgidRange).uidMap
    /\ gidMap' = getReverseUserMaps(targetUID, targetGID, subuidRange, subgidRange).gidMap
    /\ idErr' = getReverseUserMaps(targetUID, targetGID, subuidRange, subgidRange).err
    /\ UNCHANGED <<targetUID, targetGID, subuidRange, subgidRange>>
    /\ UNCHANGED <<capVars, envVars, procVars, nsVars, launchVars, mapVars, bundleVars, sectionVars>>

\* The call returns the two maps.
GetReverseUserMapsReturns ==
    /\ idPc = "call"
    /\ getReverseUserMaps(targetUID, targetGID, subuidRange, subgidRange).err = "nil"
    /\ idPc' = "done"
    /\ uidMap' = getReverseUserMaps(targetUID, targetGID, subuidRange, subgidRange).uidMap
    /\ gidMap' = getReverseUserMaps(targetUID, targetGID, subuidRange, subgidRange).gidMap
    /\ idErr' = "nil"
    /\ UNCHANGED <<targetUID, targetGID, subuidRange, subgidRange>>
    /\ UNCHANGED <<capVars, envVars, procVars, nsVars, launchVars, mapVars, bundleVars, sectionVars>>

IDNext == GetReverseUserMapsFails \/ GetReverseUserMapsReturns

(***************************************************************************)
(* Capabilities of the container process                                   *)
(***************************************************************************)

\* The longest --add-caps / --drop-caps list enumerated.
MaxCapNames == 2

\* capabilities.Map: the names the runtime knows (a few of them).
KnownCaps == {"CAP_CHOWN", "CAP_KILL", "CAP_SYS_ADMIN"}

\* The names enumerated in --add-caps and --drop-caps: one of the default
\* set, one outside it, and one that does not exist.
CapNames == {"CAP_CHOWN", "CAP_SYS_ADMIN", "CAP_BOGUS"}

\* oci.DefaultCaps: the fixed default set (a few of its names).
DefaultCaps == <<"CAP_CHOWN", "CAP_KILL">>

SeqsUpTo(S, n) == UNION {[1..k -> S] : k \in 0..n}

CapLists == SeqsUpTo(CapNames, MaxCapNames)

\* What capabilities.GetProcessEffective followed by ToStrings can give.
HostEffectiveResults ==
    { [ok |-> FALSE, caps |-> <<>>],
      [ok |-> TRUE, caps |-> <<>>],
      [ok |-> TRUE, caps |-> <<"CAP_KILL">>],
      [ok |-> TRUE, caps |-> <<"CAP_CHOWN", "CAP_SYS_ADMIN">>] }

\* In-container target UIDs: root and two others.
CapTargetUIDs == {0, 1, 1000}

\* capabilities.Split: the known names of the list, and the ignored ones.
Split(names) ==
    [known |-> SelectSeq(names, LAMBDA c : c \in KnownCaps),
     ignored |-> SelectSeq(names, LAMBDA c : c \notin KnownCaps)]

\* capabilities.RemoveDuplicated: the first occurrence of each name, in order.
RECURSIVE RemoveDuplicated(_)
RemoveDuplicated(s) ==
    IF s = <<>> THEN <<>>
    ELSE LET front == RemoveDuplicated(SubSeq(s, 1, Len(s) - 1))
             last == s[Len(s)]
         IN IF last \in Range(front) THEN front ELSE Append(front, last)

\* lo.Without: the elements of s that are not in excl, in order.
Without(s, excl) == SelectSeq(s, LAMBDA c : c \notin Range(excl))

NoCaps == [Permitted |-> <<>>, Effective |-> <<>>, Bounding |-> <<>>,
           Inheritable |-> <<>>, Ambient |-> <<>>]

\* A bug getBaseCapabilities could have: KeepPrivs looked at before NoPrivs.
getBaseCapabilities_KeepFirst(c, hostEff) ==
    IF c.KeepPrivs
    THEN IF hostEff.ok THEN [err |-> "nil", caps |-> hostEff.caps]
                       ELSE [err |-> "effective capabilities", caps |-> <<>>]
    ELSE IF c.NoPrivs
    THEN [err |-> "nil", caps |-> <<>>]
    ELSE [err |-> "nil", caps |-> DefaultCaps]

\* Launcher.getBaseCapabilities.
getBaseCapabilities(c, hostEff) ==
    IF c.NoPrivs
    THEN [err |-> "nil", caps |-> <<>>]
    ELSE IF c.KeepPrivs
    THEN IF hostEff.ok THEN [err |-> "nil", caps |-> hostEff.caps]
                       ELSE [err |-> "effective capabilities", caps |-> <<>>]
    ELSE [err |-> "nil", caps |-> DefaultCaps]

\* The bounding list: base, then the added names, duplicates removed, the
\* dropped names taken out.
BoundingCaps(c, hostEff) ==
    Without(RemoveDuplicated(getBaseCapabilities(c, hostEff).caps \o Split(c.AddCaps).known),
            Split(c.DropCaps).known)

\* A bug ExplicitCaps could have: the drop list not applied to the add list.
ExplicitCaps_DropNotApplied(c) == Split(c.AddCaps).known

ExplicitCaps(c) == Without(Split(c.AddCaps).known, Split(c.DropCaps).known)

\* A bug the root branch could have: the set handed down as inheritable too.
RootCaps_Inheritable(computed) ==
    [Permitted |-> computed, Effective |-> computed, Bounding |-> computed,
     Inheritable |-> computed, Ambient |-> <<>>]

\* The sets of a process that is root in the container.
RootCaps(computed) ==
    [Permitted |-> computed, Effective |-> computed, Bounding |-> computed,
     Inheritable |-> <<>>, Ambient |-> <<>>]

\* A bug the non-root branch could have: the whole bounding list permitted.
NonRootCaps_PermitBounding(computed, explicitCaps) ==
    [Permitted |-> computed, Effective |-> explicitCaps, Bounding |-> computed,
     Inheritable |-> explicitCaps, Ambient |-> explicitCaps]

\* The sets of a process that is not root in the container.
NonRootCaps(computed, explicitCaps) ==
    [Permitted |-> explicitCaps, Effective |-> explicitCaps, Bounding |-> computed,
     Inheritable |-> explicitCaps, Ambient |-> explicitCaps]

\* A bug getProcessCapabilities could have: the ambient set of a non-root
\* process raised to the whole bounding list.
getProcessCapabilities_AmbientBounding(c, tUID, hostEff) ==
    IF getBaseCapabilities(c, hostEff).err # "nil"
    THEN [err |-> getBaseCapabilities(c, hostEff).err, caps |-> NoCaps]
    ELSE IF tUID = 0
    THEN [err |-> "nil", caps |-> RootCaps(BoundingCaps(c, hostEff))]
    ELSE [err |-> "nil",
          caps |-> [NonRootCaps(BoundingCaps(c, hostEff), ExplicitCaps(c))
                        EXCEPT !.Ambient = BoundingCaps(c, hostEff)]]

\* Launcher.getProcessCapabilities.
getProcessCapabilities(c, tUID, hostEff) ==
    IF getBaseCapabilities(c, hostEff).err # "nil"
    THEN [err |-> getBaseCapabilities(c, hostEff).err, caps |-> NoCaps]
    ELSE IF tUID = 0
    THEN [err |-> "nil", caps |-> RootCaps(BoundingCaps(c, hostEff))]
    ELSE [err |-> "nil", caps |-> NonRootCaps(BoundingCaps(c, hostEff), ExplicitCaps(c))]

\* launcher.Options with the capability options given and the others at
\* their zero values.
CapOptions(noPrivs, keepPrivs, addCaps, dropCaps) ==
    [NoPrivs |-> noPrivs, KeepPrivs |-> keepPrivs, AddCaps |-> addCaps, DropCaps |-> dropCaps,
     EnvFile |-> "", Env |-> <<>>, CwdPath |-> <<>>]

\* No getProcessCapabilities call is in progress.
CapRest ==
    /\ capPc = "idle"
    /\ capTargetUID = 0
    /\ caps = NoCaps
    /\ capErr = "nil"

CapIdle ==
    /\ CapRest
    /\ cfg = CapOptions(FALSE, FALSE, <<>>, <<>>)
    /\ hostEffective = [ok |-> TRUE, caps |-> <<>>]

CapCall ==
    /\ capPc = "call"
    /\ cfg \in {CapOptions(n, k, a, d) : n \in BOOLEAN, k \in BOOLEAN, a \in CapLists, d \in CapLists}
    /\ capTargetUID \in CapTargetUIDs
    /\ hostEffective \in HostEffectiveResults
    /\ caps = NoCaps
    /\ capErr = "nil"

\* The call fails: the host's effective set could not be read.
GetProcessCapabilitiesFails ==
    /\ capPc = "call"
    /\ getProcessCapabilities(cfg, capTargetUID, hostEffective).err # "nil"
    /\ capPc' = "done"
    /\ caps' = getProcessCapabilities(cfg, capTargetUID, hostEffective).caps
    /\ capErr' = getProcessCapabilities(cfg, capTargetUID, hostEffective).err
    /\ UNCHANGED <<cfg, capTargetUID, hostEffective>>
    /\ UNCHANGED <<idVars, envVars, procVars, nsVars, launchVars, mapVars, bundleVars, sectionVars>>

\* The call returns the five sets.
GetProcessCapabilitiesReturns ==
    /\ capPc = "call"
    /\ getProcessCapabilities(cfg, capTargetUID, hostEffective).err = "nil"
    /\ capPc' = "done"
    /\ caps' = getProcessCapabilities(cfg, capTargetUID, hostEffective).caps
    /\ capErr' = "nil"
    /\ UNCHANGED <<cfg, capTargetUID, hostEffective>>
    /\ UNCHANGED <<idVars, envVars, procVars, nsVars, launchVars, mapVars, bundleVars, sectionVars>>

CapNext == GetProcessCapabilitiesFails \/ GetProcessCapabilitiesReturns

(***************************************************************************)
(* Strings                                                                 *)
(*                                                                         *)
(* A string is a sequence of tokens.  "=" and ":" are the characters the   *)
(* code splits and joins on; every other token stands for a run of other   *)
(* characters (a variable name, a directory, a prefix) that the code only  *)
(* compares, copies or searches for as a whole.                            *)
(***************************************************************************)

IndexOf(str, t) ==
    IF \E i \in 1..Len(str) : str[i] = t
    THEN CHOOSE i \in 1..Len(str) : str[i] = t /\ \A j \in 1..(i - 1) : str[j] # t
    ELSE 0

\* strings.SplitN(str, "=", 2)
SplitN2(str) ==
    IF IndexOf(str, "=") = 0 THEN <<str>>
    ELSE <<SubSeq(str, 1, IndexOf(str, "=") - 1), SubSeq(str, IndexOf(str, "=") + 1, Len(str))>>

\* strings.HasPrefix
HasPrefix(str, prefix) ==
    Len(prefix) <= Len(str) /\ SubSeq(str, 1, Len(prefix)) = prefix

\* strings.TrimPrefix
TrimPrefix(str, prefix) ==
    IF HasPrefix(str, prefix) THEN SubSeq(str, Len(prefix) + 1, Len(str)) ELSE str

\* strings.Contains: sub occurs in str at some position.
Contains(str, sub) ==
    \E i \in 1..(Len(str) - Len(sub) + 1) : SubSeq(str, i, i + Len(sub) - 1) = sub

\* key + "=" + value
KeyValue(k, v) == k \o <<"=">> \o v

\* A Go map[string]string is a function from its keys; this is the empty one.
EmptyMap == [k \in {} |-> <<>>]

\* The map with the single key k.
OneKey(k, v) == [x \in {k} |-> v]

\* The orders in which a range loop can visit the keys of a map: Go leaves
\* the iteration order of a map unspecified.
RECURSIVE Orders(_)
Orders(keys) ==
    IF keys = {} THEN {<<>>}
    ELSE UNION {{<<k>> \o rest : rest \in Orders(keys \ {k})} : k \in keys}

(***************************************************************************)
(* Environment of the container process                                    *)
(***************************************************************************)

\* const apptainerLibs = "/.singularity.d/libs"
apptainerLibs == <<"/.singularity.d/libs">>

PATH == <<"PATH">>

APPEND_PATH == <<"APPEND_PATH">>

PREPEND_PATH == <<"PREPEND_PATH">>

LD_LIBRARY_PATH == <<"LD_LIBRARY_PATH">>

\* generate.Generator.SetProcessEnv: the entry of key k replaced where it
\* stands, or k=v appended when the list has no entry of that key.
SetProcessEnv(env, k, v) ==
    IF \E i \in 1..Len(env) : HasPrefix(env[i], k \o <<"=">>)
    THEN LET i == CHOOSE j \in 1..Len(env) :
                    /\ HasPrefix(env[j], k \o <<"=">>)
                    /\ \A h \in 1..(j - 1) : ~HasPrefix(env[h], k \o <<"=">>)
         IN [env EXCEPT ![i] = KeyValue(k, v)]
    ELSE Append(env, KeyValue(k, v))

\* The loop over the image config: PATH and LD_LIBRARY_PATH picked up, an
\* entry without "=" skipped.  acc holds the locals of getProcessEnv.
RECURSIVE ImageLoop(_, _, _)
ImageLoop(env, i, acc) ==
    IF i > Len(env) THEN acc
    ELSE LET e == SplitN2(env[i])
         IN IF Len(e) < 2 THEN ImageLoop(env, i + 1, acc)
            ELSE ImageLoop(env, i + 1,
                    [acc EXCEPT !.path = IF e[1] = PATH THEN e[2] ELSE @,
                                !.ldLibraryPath = IF e[1] = LD_LIBRARY_PATH THEN e[2] ELSE @])

\* The loop over the runtime map, its keys visited in the given order.
RECURSIVE RuntimeLoop(_, _, _, _)
RuntimeLoop(rt, order, i, acc) ==
    IF i > Len(order) THEN acc
    ELSE LET k == order[i]
             v == rt[k]
         IN RuntimeLoop(rt, order, i + 1,
                IF k = PATH THEN [acc EXCEPT !.path = v]
                ELSE IF k = APPEND_PATH THEN [acc EXCEPT !.appendPath = v]
                ELSE IF k = PREPEND_PATH THEN [acc EXCEPT !.prependPath = v]
                ELSE IF k = LD_LIBRARY_PATH THEN [acc EXCEPT !.ldLibraryPath = v]
                ELSE [acc EXCEPT !.env = SetProcessEnv(@, k, v)])

\* A bug PathStep could have: PREPEND_PATH joined to the PATH as it was
\* before APPEND_PATH was joined to it.
PathStep_PrependDropsAppend(acc) ==
    LET appended == IF acc.appendPath # <<>>
                    THEN acc.path \o <<":">> \o acc.appendPath ELSE acc.path
        path == IF acc.prependPath # <<>>
                THEN acc.prependPath \o <<":">> \o acc.path ELSE appended
    IN [acc EXCEPT !.path = path,
                   !.env = IF path # <<>> THEN SetProcessEnv(@, PATH, path) ELSE @]

\* APPEND_PATH and PREPEND_PATH joined to PATH, and PATH set unless empty.
PathStep(acc) ==
    LET appended == IF acc.appendPath # <<>>
                    THEN acc.path \o <<":">> \o acc.appendPath ELSE acc.path
        path == IF acc.prependPath # <<>>
                THEN acc.prependPath \o <<":">> \o appended ELSE appended
    IN [acc EXCEPT !.path = path,
                   !.env = IF path # <<>> THEN SetProcessEnv(@, PATH, path) ELSE @]

\* LD_LIBRARY_PATH given the bind directory unless it contains it, and set.
LdLibraryPathStep(acc) ==
    LET ld == IF ~Contains(acc.ldLibraryPath, apptainerLibs)
              THEN TrimPrefix(acc.ldLibraryPath \o <<":">> \o apptainerLibs, <<":">>)
              ELSE acc.ldLibraryPath
    IN [acc EXCEPT !.ldLibraryPath = ld, !.env = SetProcessEnv(@, LD_LIBRARY_PATH, ld)]

\* getProcessEnv, for one order of the loop over runtimeEnv.
getProcessEnv(imgEnv, rtEnv, order) ==
    LET start == [path |-> <<>>, appendPath |-> <<>>, prependPath |-> <<>>,
                  ldLibraryPath |-> <<>>, env |-> imgEnv]
    IN LdLibraryPathStep(PathStep(
            RuntimeLoop(rtEnv, order, 1, ImageLoop(imgEnv, 1, start)))).env

\* The longest LD_LIBRARY_PATH value enumerated, in tokens.
MaxLdLen == 2

\* LD_LIBRARY_PATH values: the bind directory, other characters (a
\* directory name, or the rest of one) and the separator, in any arrangement.
LdValues == SeqsUpTo({"/.singularity.d/libs", "64", ":"}, MaxLdLen)

\* The mark of an entry or a value that is not there, while the inputs are
\* put together.
Absent == <<"(absent)">>

Maybe(values) == {Absent} \cup values

\* A list of optional entries: those of the sequence that are there.
Present(entries) == SelectSeq(entries, LAMBDA e : e # Absent)

\* A map of optional values: the keys whose value is there.
MapOf(keys, value) ==
    [k \in {x \in keys : value[x] # Absent} |-> value[k]]

\* Inputs that vary LD_LIBRARY_PATH: in the image config, in the runtime
\* map, in both or in neither, next to an ordinary variable and an image
\* entry without "=".
LdImageEnvs ==
    { Present(<<foo, ld, junk>>) :
        foo \in Maybe({KeyValue(<<"FOO">>, <<"i">>)}),
        ld \in Maybe({KeyValue(LD_LIBRARY_PATH, v) : v \in LdValues}),
        junk \in Maybe({<<"JUNK">>}) }

LdRuntimeEnvs ==
    { MapOf({<<"FOO">>, LD_LIBRARY_PATH}, foo @@ ld) :
        foo \in {OneKey(<<"FOO">>, v) : v \in Maybe({<<"r">>})},
        ld \in {OneKey(LD_LIBRARY_PATH, v) : v \in Maybe(LdValues)} }

\* Inputs that vary PATH, APPEND_PATH and PREPEND_PATH (unset, empty or a
\* directory), next to ordinary variables.
PathImageEnvs ==
    { Present(<<path, foo, app>>) :
        path \in Maybe({KeyValue(PATH, <<"/a">>)}),
        foo \in Maybe({KeyValue(<<"FOO">>, <<"i">>)}),
        app \in Maybe({KeyValue(APPEND_PATH, <<"/ia">>)}) }

PathRuntimeEnvs ==
    { MapOf({PATH, APPEND_PATH, PREPEND_PATH, <<"FOO">>, <<"BAR">>}, p @@ a @@ pp @@ foo @@ bar) :
        p \in {OneKey(PATH, v) : v \in Maybe({<<>>, <<"/b">>})},
        a \in {OneKey(APPEND_PATH, v) : v \in Maybe({<<>>, <<"/app">>})},
        pp \in {OneKey(PREPEND_PATH, v) : v \in Maybe({<<>>, <<"/pre">>})},
        foo \in {OneKey(<<"FOO">>, v) : v \in Maybe({<<"r">>})},
        bar \in {OneKey(<<"BAR">>, v) : v \in Maybe({<<"s">>})} }

\* No getProcessEnv call is in progress.
EnvIdle ==
    /\ envPc = "idle"
    /\ imageEnv = <<>>
    /\ runtimeEnv = EmptyMap
    /\ processEnv = <<>>

EnvCall ==
    /\ envPc = "call"
    /\ \/ imageEnv \in LdImageEnvs /\ runtimeEnv \in LdRuntimeEnvs
       \/ imageEnv \in PathImageEnvs /\ runtimeEnv \in PathRuntimeEnvs
    /\ processEnv = <<>>

\* One call of getProcessEnv.
GetProcessEnv ==
    /\ envPc = "call"
    /\ \E order \in Orders(DOMAIN runtimeEnv) :
            processEnv' = getProcessEnv(imageEnv, runtimeEnv, order)
    /\ envPc' = "done"
    /\ UNCHANGED <<imageEnv, runtimeEnv>>
    /\ UNCHANGED <<idVars, capVars, procVars, nsVars, launchVars, mapVars, bundleVars, sectionVars>>

EnvNext == GetProcessEnv

(***************************************************************************)
(* The process descriptor (Launcher.getProcess)                            *)
(***************************************************************************)

\* env.ApptainerEnvPrefix
ApptainerEnvPrefix == <<"APPTAINERENV_">>

\* env.ReadOnlyVars: the variables the shell interpreter sets itself (one).
ReadOnlyVars == {<<"UID">>}

\* mergeMap: the keys of b written over a.
mergeMap(a, b) ==
    [k \in (DOMAIN a) \cup (DOMAIN b) |-> IF k \in DOMAIN b THEN b[k] ELSE a[k]]

\* defaultEnv
defaultEnv(image, bndl) ==
    mergeMap(OneKey(<<"APPTAINER_CONTAINER">>, bndl), OneKey(<<"APPTAINER_NAME">>, image))

\* The loop both apptainerEnvMap and envFileMap run over a list of
\* KEY=VALUE strings: entries that lack the prefix or the "=" are skipped,
\* as are the keys to strip; the rest are put in the map, a later entry over
\* an earlier one.
RECURSIVE EnvListLoop(_, _, _, _, _)
EnvListLoop(list, i, prefix, strip, acc) ==
    IF i > Len(list) THEN acc
    ELSE LET parts == SplitN2(list[i])
         IN IF ~HasPrefix(list[i], prefix) THEN EnvListLoop(list, i + 1, prefix, strip, acc)
            ELSE IF Len(parts) < 2 THEN EnvListLoop(list, i + 1, prefix, strip, acc)
            ELSE IF parts[1] \in strip THEN EnvListLoop(list, i + 1, prefix, strip, acc)
            ELSE EnvListLoop(list, i + 1, prefix, strip,
                    mergeMap(acc, OneKey(TrimPrefix(parts[1], prefix), parts[2])))

\* A bug apptainerEnvMap could have: every variable of the host taken.
apptainerEnvMap_NoPrefixTest(env) == EnvListLoop(env, 1, <<>>, {}, EmptyMap)

\* apptainerEnvMap, over os.Environ()
apptainerEnvMap(env) == EnvListLoop(env, 1, ApptainerEnvPrefix, {}, EmptyMap)

\* envFileMap, over what reading and evaluating the file gives
envFileMap(file) ==
    IF file.status = "unreadable" THEN [err |-> "read environment file", map |-> EmptyMap]
    ELSE IF file.status = "invalid" THEN [err |-> "process environment file", map |-> EmptyMap]
    ELSE [err |-> "nil", map |-> EnvListLoop(file.shellEnv, 1, <<>>, ReadOnlyVars, EmptyMap)]

\* os.LookupEnv
LookupEnv(environ, k) ==
    IF \E i \in 1..Len(environ) : HasPrefix(environ[i], k \o <<"=">>)
    THEN [set |-> TRUE,
          value |-> TrimPrefix(environ[CHOOSE i \in 1..Len(environ) :
                                    HasPrefix(environ[i], k \o <<"=">>)], k \o <<"=">>)]
    ELSE [set |-> FALSE, value |-> <<>>]

\* rtEnv before the environment file: the defaults, the host TERM, the
\* APPTAINERENV_ variables.
BaseRuntimeEnv(e, bndl, h) ==
    mergeMap(
        IF LookupEnv(h.environ, <<"TERM">>).set
        THEN mergeMap(defaultEnv(e.Image, bndl),
                      OneKey(<<"TERM">>, LookupEnv(h.environ, <<"TERM">>).value))
        ELSE defaultEnv(e.Image, bndl),
        apptainerEnvMap(h.environ))

\* A bug WithHome could have: HOME forced whatever the image says.
WithHome_Always(l, img, rtEnv) == mergeMap(rtEnv, OneKey(<<"HOME">>, l.homeDest))

\* HOME forced to the home directory unless the image names its user.
WithHome(l, img, rtEnv) ==
    IF img.User = "" THEN mergeMap(rtEnv, OneKey(<<"HOME">>, l.homeDest)) ELSE rtEnv

\* A bug ProcessRuntimeEnv could have: the environment file merged after
\* the --env pairs.
ProcessRuntimeEnv_FileLast(l, c, img, bndl, e, h) ==
    IF c.EnvFile # "" /\ envFileMap(h.envFile).err # "nil"
    THEN [err |-> envFileMap(h.envFile).err, rtEnv |-> EmptyMap]
    ELSE [err |-> "nil",
          rtEnv |-> WithHome(l, img,
                        IF c.EnvFile # ""
                        THEN mergeMap(mergeMap(BaseRuntimeEnv(e, bndl, h), c.Env),
                                      envFileMap(h.envFile).map)
                        ELSE mergeMap(BaseRuntimeEnv(e, bndl, h), c.Env))]

\* The runtime environment getProcess assembles, or the error of the
\* environment file.
ProcessRuntimeEnv(l, c, img, bndl, e, h) ==
    IF c.EnvFile # "" /\ envFileMap(h.envFile).err # "nil"
    THEN [err |-> envFileMap(h.envFile).err, rtEnv |-> EmptyMap]
    ELSE [err |-> "nil",
          rtEnv |-> WithHome(l, img,
                        mergeMap(IF c.EnvFile # ""
                                 THEN mergeMap(BaseRuntimeEnv(e, bndl, h), envFileMap(h.envFile).map)
                                 ELSE BaseRuntimeEnv(e, bndl, h),
                                 c.Env))]

\* Launcher.getProcessCwd
getProcessCwd(l, c) == IF Len(c.CwdPath) > 0 THEN c.CwdPath ELSE l.homeDest

\* var ociShellScript
ociShellScript == "export PS1='Apptainer> '; test -x /bin/bash && exec /bin/bash --norc || exec /bin/sh"

\* A bug getProcessArgs could have: the image default command appended
\* whenever no arguments are given, process name or not.
getProcessArgs_CmdAfterProcess(img, e) ==
    LET processArgs == IF e.Process # "" THEN <<e.Process>> ELSE img.Entrypoint
    IN IF Len(e.Args) > 0 THEN processArgs \o e.Args ELSE processArgs \o img.Cmd

\* getProcessArgs
getProcessArgs(img, e) ==
    LET processArgs == IF e.Process # "" THEN <<e.Process>> ELSE img.Entrypoint
    IN IF Len(e.Args) > 0 THEN processArgs \o e.Args
       ELSE IF e.Process = "" THEN processArgs \o img.Cmd
       ELSE processArgs

\* A bug ProcessArgs could have: the shell action tried before the image
\* format.
ProcessArgs_ShellFirst(l, img, e) ==
    IF e.Action = "shell"
    THEN [err |-> "nil", args |-> <<"/bin/sh", "-c", ociShellScript>>]
    ELSE IF l.nativeSIF
    THEN IF e.ActionScriptArgs.ok
         THEN [err |-> "nil", args |-> e.ActionScriptArgs.args]
         ELSE [err |-> "while getting ProcessArgs", args |-> <<>>]
    ELSE [err |-> "nil", args |-> getProcessArgs(img, e)]

\* The switch of getProcess over the three ways to get the arguments.
ProcessArgs(l, img, e) ==
    IF l.nativeSIF
    THEN IF e.ActionScriptArgs.ok
         THEN [err |-> "nil", args |-> e.ActionScriptArgs.args]
         ELSE [err |-> "while getting ProcessArgs", args |-> <<>>]
    ELSE IF e.Action = "shell"
    THEN [err |-> "nil", args |-> <<"/bin/sh", "-c", ociShellScript>>]
    ELSE [err |-> "nil", args |-> getProcessArgs(img, e)]

NoProcess == [Args |-> <<>>, Capabilities |-> NoCaps, Cwd |-> <<>>, Env |-> <<>>,
              NoNewPrivileges |-> FALSE, User |-> [UID |-> 0, GID |-> 0], Terminal |-> FALSE]

\* A bug getProcess could have: an environment file that cannot be read or
\* evaluated is passed over and the descriptor built without its variables.
getProcess_SkipsFailedFile(l, c, img, bndl, e, u, h, hostEff, order) ==
    LET capabilities == getProcessCapabilities(c, u.UID, hostEff)
        args == ProcessArgs(l, img, e)
        rtEnv == WithHome(l, img, mergeMap(BaseRuntimeEnv(e, bndl, h), c.Env))
    IN IF capabilities.err # "nil" THEN [err |-> capabilities.err, p |-> NoProcess]
       ELSE IF args.err # "nil" THEN [err |-> args.err, p |-> NoProcess]
       ELSE [err |-> "nil",
             p |-> [Args |-> args.args,
                    Capabilities |-> capabilities.caps,
                    Cwd |-> getProcessCwd(l, c),
                    Env |-> getProcessEnv(img.Env, rtEnv, <<>>),
                    NoNewPrivileges |-> c.NoPrivs,
                    User |-> u,
                    Terminal |-> h.stdinIsTerminal]]

\* Launcher.getProcess, for one order of the loop of getProcessEnv over the
\* runtime environment.
getProcess(l, c, img, bndl, e, u, h, hostEff, order) ==
    LET rt == ProcessRuntimeEnv(l, c, img, bndl, e, h)
        capabilities == getProcessCapabilities(c, u.UID, hostEff)
        args == ProcessArgs(l, img, e)
    IN IF rt.err # "nil" THEN [err |-> rt.err, p |-> NoProcess]
       ELSE IF capabilities.err # "nil" THEN [err |-> capabilities.err, p |-> NoProcess]
       ELSE IF args.err # "nil" THEN [err |-> args.err, p |-> NoProcess]
       ELSE [err |-> "nil",
             p |-> [Args |-> args.args,
                    Capabilities |-> capabilities.caps,
                    Cwd |-> getProcessCwd(l, c),
                    Env |-> getProcessEnv(img.Env, rt.rtEnv, order),
                    NoNewPrivileges |-> c.NoPrivs,
                    User |-> u,
                    Terminal |-> h.stdinIsTerminal]]

\* The keys the layers of the environment are tried on: ordinary ones, the
\* one a runtime default sets, and the ones getProcess or getProcessEnv
\* treat specially.
TestKeys == {<<"FOO">>, <<"TERM">>, <<"APPTAINER_NAME">>, <<"HOME">>,
             PATH, APPEND_PATH, LD_LIBRARY_PATH}

\* No environment file is configured: nothing is read.
NoFile == [status |-> "unreadable", shellEnv |-> <<>>]

\* What reading and evaluating the environment file can give: an error of
\* either kind, or the variables of the shell with or without the key.
EnvFiles(k) ==
    { [status |-> "unreadable", shellEnv |-> <<>>],
      [status |-> "invalid", shellEnv |-> <<>>] }
    \cup { [status |-> "ok", shellEnv |-> Present(<<KeyValue(<<"UID">>, <<"1000">>), e>>)] :
                e \in Maybe({KeyValue(k, <<"/f">>)}) }

\* l.cfg.EnvFile together with what the file gives.
FilePairs(k) == {<<"", NoFile>>} \cup {<<"/env.sh", f>> : f \in EnvFiles(k)}

\* l.cfg.Env: the key unset, empty or set, with or without APPEND_PATH.
EnvFlags(k) ==
    { mergeMap(MapOf({APPEND_PATH}, OneKey(APPEND_PATH, a)), MapOf({k}, OneKey(k, v))) :
        a \in Maybe({<<"/app">>}), v \in Maybe({<<>>, <<"/c">>}) }

\* No getProcess call is in progress.
ProcIdle ==
    /\ procPc = "idle"
    /\ launcher = [homeDest |-> <<>>, nativeSIF |-> FALSE]
    /\ imgSpec = [Env |-> <<>>, User |-> "", Entrypoint |-> <<>>, Cmd |-> <<>>]
    /\ ep = [Image |-> <<>>, Action |-> "", Process |-> "", Args |-> <<>>,
             ActionScriptArgs |-> [ok |-> FALSE, args |-> <<>>]]
    /\ bundle = <<>>
    /\ user = [UID |-> 0, GID |-> 0]
    /\ host = [environ |-> <<>>, envFile |-> NoFile, stdinIsTerminal |-> FALSE]
    /\ process = NoProcess
    /\ procErr = "nil"

\* A call that varies the environment: for a key k, each layer (image
\* config, APPTAINERENV_ variable, environment file, --env) sets k or does
\* not, each to a value of its own; the host has TERM or not; the image
\* names a user or not.
EnvLayersCall ==
    /\ launcher = [homeDest |-> <<"/home/user">>, nativeSIF |-> FALSE]
    /\ ep = [Image |-> <<"/image.sif">>, Action |-> "exec", Process |-> "", Args |-> <<>>,
             ActionScriptArgs |-> [ok |-> TRUE, args |-> <<"/.singularity.d/actions/exec">>]]
    /\ \E k \in TestKeys :
        /\ imgSpec \in { [Env |-> Present(<<e>>), User |-> usr,
                           Entrypoint |-> <<"/bin/foo">>, Cmd |-> <<"--flag">>] :
                            e \in Maybe({KeyValue(k, <<"/a">>)}), usr \in {"", "1000"} }
        /\ \E fp \in FilePairs(k) :
            /\ host \in { [environ |-> Present(<<t, KeyValue(<<"LANG">>, <<"C">>), a>>),
                            envFile |-> fp[2], stdinIsTerminal |-> TRUE] :
                            t \in Maybe({KeyValue(<<"TERM">>, <<"xterm">>)}),
                            a \in Maybe({ApptainerEnvPrefix \o KeyValue(k, <<"/b">>)}) }
            /\ cfg \in { [CapOptions(FALSE, FALSE, <<>>, <<>>) EXCEPT !.EnvFile = fp[1], !.Env = f] :
                            f \in EnvFlags(k) }

\* imageSpec.Config.Entrypoint and Cmd: none, one word or two.
ImageArgLists == {<<>>, <<"/bin/foo">>, <<"/bin/foo", "-e">>}

ImageCmdLists == {<<>>, <<"--flag">>, <<"--flag", "value">>}

\* ep.Process and ep.Args: no process name or one, no arguments, one or two.
ProcessNames == {"", "/bin/bar"}

ExplicitArgLists == {<<>>, <<"x">>, <<"x", "y">>}

\* A call that varies the command line: the image format, the action, the
\* outcome of ep.ActionScriptArgs, the image entrypoint and default command,
\* the explicit process name and arguments.
ArgsCall ==
    /\ launcher \in {[homeDest |-> <<"/home/user">>, nativeSIF |-> n] : n \in BOOLEAN}
    /\ ep \in { [Image |-> <<"/image.sif">>, Action |-> a, Process |-> pn, Args |-> ar,
                  ActionScriptArgs |->
                      IF ok THEN [ok |-> TRUE, args |-> <<"/.singularity.d/actions/" \o a>>]
                      ELSE [ok |-> FALSE, args |-> <<>>]] :
                    a \in {"exec", "shell"}, pn \in ProcessNames, ar \in ExplicitArgLists,
                    ok \in BOOLEAN }
    /\ imgSpec \in { [Env |-> <<>>, User |-> "1000", Entrypoint |-> en, Cmd |-> cm] :
                        en \in ImageArgLists, cm \in ImageCmdLists }
    /\ host = [environ |-> <<KeyValue(<<"LANG">>, <<"C">>)>>, envFile |-> NoFile,
               stdinIsTerminal |-> TRUE]
    /\ cfg = CapOptions(FALSE, FALSE, <<>>, <<>>)

\* A call that varies what the capabilities depend on: the privilege
\* options, the host's effective set (read or not), root or not in the
\* container.
PrivsCall ==
    /\ launcher = [homeDest |-> <<"/home/user">>, nativeSIF |-> FALSE]
    /\ ep = [Image |-> <<"/image.sif">>, Action |-> "exec", Process |-> "", Args |-> <<>>,
             ActionScriptArgs |-> [ok |-> TRUE, args |-> <<"/.singularity.d/actions/exec">>]]
    /\ imgSpec = [Env |-> <<>>, User |-> "1000", Entrypoint |-> <<"/bin/foo">>, Cmd |-> <<>>]
    /\ host = [environ |-> <<KeyValue(<<"LANG">>, <<"C">>)>>, envFile |-> NoFile,
               stdinIsTerminal |-> FALSE]
    /\ cfg \in {CapOptions(n, k, a, <<>>) : n \in BOOLEAN, k \in BOOLEAN,
                                            a \in {<<>>, <<"CAP_SYS_ADMIN">>}}
    /\ user \in {[UID |-> u, GID |-> u] : u \in {0, 1000}}
    /\ hostEffective \in HostEffectiveResults

\* A call of getProcess.
ProcCall ==
    /\ procPc = "call"
    /\ bundle = <<"/bundle">>
    /\ \/ /\ EnvLayersCall \/ ArgsCall
          /\ user = [UID |-> 1000, GID |-> 1000]
          /\ hostEffective = [ok |-> TRUE, caps |-> <<>>]
       \/ PrivsCall
    /\ process = NoProcess
    /\ procErr = "nil"

\* The call returns an error and no process descriptor.
GetProcessFails ==
    /\ procPc = "call"
    /\ ProcessRuntimeEnv(launcher, cfg, imgSpec, bundle, ep, host).err # "nil"
          \/ getProcessCapabilities(cfg, user.UID, hostEffective).err # "nil"
          \/ ProcessArgs(launcher, imgSpec, ep).err # "nil"
    /\ procPc' = "done"
    /\ process' = getProcess(launcher, cfg, imgSpec, bundle, ep, user, host, hostEffective, <<>>).p
    /\ procErr' = getProcess(launcher, cfg, imgSpec, bundle, ep, user, host, hostEffective, <<>>).err
    /\ UNCHANGED <<launcher, imgSpec, ep, bundle, user, host>>
    /\ UNCHANGED <<idVars, capVars, envVars, nsVars, launchVars, mapVars, bundleVars, sectionVars>>

\* The call returns the process descriptor.
GetProcessReturns ==
    /\ procPc = "call"
    /\ ProcessRuntimeEnv(launcher, cfg, imgSpec, bundle, ep, host).err = "nil"
    /\ getProcessCapabilities(cfg, user.UID, hostEffective).err = "nil"
    /\ ProcessArgs(launcher, imgSpec, ep).err = "nil"
    /\ \E order \in Orders(DOMAIN ProcessRuntimeEnv(launcher, cfg, imgSpec, bundle, ep, host).rtEnv) :
            process' = getProcess(launcher, cfg, imgSpec, bundle, ep, user, host, hostEffective, order).p
    /\ procErr' = "nil"
    /\ procPc' = "done"
    /\ UNCHANGED <<launcher, imgSpec, ep, bundle, user, host>>
    /\ UNCHANGED <<idVars, capVars, envVars, nsVars, launchVars, mapVars, bundleVars, sectionVars>>

ProcNext == GetProcessFails \/ GetProcessReturns

(***************************************************************************)
(* Namespaces of the runtime spec (minimalSpec, addNamespaces)             *)
(***************************************************************************)

\* var defaultNamespaces, by specs.LinuxNamespace.Type
defaultNamespaces == <<"ipc", "pid", "mount">>

\* A Go slice: the elements in view and the capacity of the array behind
\* them; shared tells whether that array is the one of defaultNamespaces.
Slice(elems, cap, shared) == [elems |-> elems, cap |-> cap, shared |-> shared]

\* append(s, x): x written after the elements in view when the array has
\* room, else the elements copied to a new array of twice the capacity (of
\* one element for an empty one).  The element written in place lies
\* beyond the view of every slice as long as s, so no other slice changes.
GoAppend(s, x) ==
    IF Len(s.elems) < s.cap THEN [s EXCEPT !.elems = Append(@, x)]
    ELSE Slice(Append(s.elems, x), IF s.cap = 0 THEN Len(s.elems) + 1 ELSE s.cap + s.cap, FALSE)

\* A bug minimalSpec could have: the slice it hands out has room left in
\* the array of defaultNamespaces.
minimalSpec_SpareCapacity ==
    [Namespaces |-> Slice(defaultNamespaces, Len(defaultNamespaces) + Len(defaultNamespaces), TRUE)]

\* minimalSpec: Linux.Namespaces is the defaultNamespaces slice itself.
minimalSpec ==
    [Namespaces |-> Slice(defaultNamespaces, Len(defaultNamespaces), TRUE)]

\* strconv.Atoi on the values _CONTAINERS_ROOTLESS_UID is given here.
Atoi(str) ==
    IF str = "0" THEN [uid |-> 0, err |-> "nil"]
    ELSE IF str = "1000" THEN [uid |-> 1000, err |-> "nil"]
    ELSE [uid |-> 0, err |-> "strconv.Atoi: invalid syntax"]

\* rootless.Getuid
Getuid(r) == IF r.UIDEnv # "" THEN Atoi(r.UIDEnv) ELSE [uid |-> r.euid, err |-> "nil"]

\* What rootless.Getuid can find: the variable unset, a number or not a
\* number; the effective UID root or not.
RootlessStates ==
    { [UIDEnv |-> v, euid |-> e] : v \in {"", "0", "1000", "abc"}, e \in {0, 1000} }

NamespaceFlags ==
    [IPC : BOOLEAN, Net : BOOLEAN, PID : BOOLEAN, User : BOOLEAN, UTS : BOOLEAN]

\* A bug addNamespaces could have: a PID entry appended for the PID flag.
addNamespaces_AppendPID(s, n, r) ==
    LET withPID == IF n.PID THEN GoAppend(s.Namespaces, "pid") ELSE s.Namespaces
        withNet == IF n.Net THEN GoAppend(withPID, "network") ELSE withPID
        withUser == IF n.User /\ Getuid(r).uid = 0 THEN GoAppend(withNet, "user") ELSE withNet
        withUTS == IF n.UTS THEN GoAppend(withUser, "uts") ELSE withUser
    IN IF n.User /\ Getuid(r).err # "nil"
       THEN [err |-> Getuid(r).err, spec |-> [s EXCEPT !.Namespaces = withNet]]
       ELSE [err |-> "nil", spec |-> [s EXCEPT !.Namespaces = withUTS]]

\* A bug addNamespaces could have: the UTS flag appends two entries.
addNamespaces_UTSTwice(s, n, r) ==
    LET withNet == IF n.Net THEN GoAppend(s.Namespaces, "network") ELSE s.Namespaces
        withUser == IF n.User /\ Getuid(r).uid = 0 THEN GoAppend(withNet, "user") ELSE withNet
        withUTS == IF n.UTS THEN GoAppend(GoAppend(withUser, "uts"), "uts") ELSE withUser
    IN IF n.User /\ Getuid(r).err # "nil"
       THEN [err |-> Getuid(r).err, spec |-> [s EXCEPT !.Namespaces = withNet]]
       ELSE [err |-> "nil", spec |-> [s EXCEPT !.Namespaces = withUTS]]

\* A bug addNamespaces could have: the User entry appended for every UID.
addNamespaces_UserForAll(s, n, r) ==
    LET withNet == IF n.Net THEN GoAppend(s.Namespaces, "network") ELSE s.Namespaces
        withUser == IF n.User THEN GoAppend(withNet, "user") ELSE withNet
        withUTS == IF n.UTS THEN GoAppend(withUser, "uts") ELSE withUser
    IN IF n.User /\ Getuid(r).err # "nil"
       THEN [err |-> Getuid(r).err, spec |-> [s EXCEPT !.Namespaces = withNet]]
       ELSE [err |-> "nil", spec |-> [s EXCEPT !.Namespaces = withUTS]]

\* addNamespaces: the error returned and the spec as the call leaves it.
\* The IPC and PID flags only log; a failed Getuid returns after the
\* Network entry has been appended.
addNamespaces(s, n, r) ==
    LET withNet == IF n.Net THEN GoAppend(s.Namespaces, "network") ELSE s.Namespaces
        withUser == IF n.User /\ Getuid(r).uid = 0 THEN GoAppend(withNet, "user") ELSE withNet
        withUTS == IF n.UTS THEN GoAppend(withUser, "uts") ELSE withUser
    IN IF n.User /\ Getuid(r).err # "nil"
       THEN [err |-> Getuid(r).err, spec |-> [s EXCEPT !.Namespaces = withNet]]
       ELSE [err |-> "nil", spec |-> [s EXCEPT !.Namespaces = withUTS]]

\* No addNamespaces call is in progress.
NsIdle ==
    /\ nsPc = "idle"
    /\ ns = [IPC |-> FALSE, Net |-> FALSE, PID |-> FALSE, User |-> FALSE, UTS |-> FALSE]
    /\ rootless = [UIDEnv |-> "", euid |-> 0]
    /\ spec = minimalSpec
    /\ nsErr = "nil"

\* A call of addNamespaces on the spec minimalSpec returned.
NsCall ==
    /\ nsPc = "call"
    /\ ns \in NamespaceFlags
    /\ rootless \in RootlessStates
    /\ spec = minimalSpec
    /\ nsErr = "nil"

\* The call returns the error of rootless.Getuid.
AddNamespacesFails ==
    /\ nsPc = "call"
    /\ addNamespaces(spec, ns, rootless).err # "nil"
    /\ spec' = addNamespaces(spec, ns, rootless).spec
    /\ nsErr' = addNamespaces(spec, ns, rootless).err
    /\ nsPc' = "done"
    /\ UNCHANGED <<ns, rootless>>
    /\ UNCHANGED <<idVars, capVars, envVars, procVars, launchVars, mapVars, bundleVars, sectionVars>>

\* The call returns nil.
AddNamespacesReturns ==
    /\ nsPc = "call"
    /\ addNamespaces(spec, ns, rootless).err = "nil"
    /\ spec' = addNamespaces(spec, ns, rootless).spec
    /\ nsErr' = "nil"
    /\ nsPc' = "done"
    /\ UNCHANGED <<ns, rootless>>
    /\ UNCHANGED <<idVars, capVars, envVars, procVars, launchVars, mapVars, bundleVars, sectionVars>>

NsNext == AddNamespacesFails \/ AddNamespacesReturns

(***************************************************************************)
(* Two launches over the package variables                                 *)
(*                                                                         *)
(* minimalSpec hands out the defaultNamespaces slice and getBaseCapabilities *)
(* the oci.DefaultCaps slice; both launches append to what they were       *)
(* handed.  The arrays behind the two package variables are state, and a   *)
(* slice that shares one is read through it.                               *)
(***************************************************************************)

Launches == {"A", "B"}

\* The elements a slice shows: those of the shared array when it shares one.
View(s, array) == IF s.shared THEN SubSeq(array, 1, Len(s.elems)) ELSE s.elems

\* The array with x written at index i (one past its written part at most).
WriteSlot(array, i, x) == IF i <= Len(array) THEN [array EXCEPT ![i] = x] ELSE Append(array, x)

\* append(s, x) on a slice that may share the array: the new slice, and
\* the array, written when the slice shares it and has room.
AppendShared(array, s, x) ==
    [slice |-> GoAppend([s EXCEPT !.elems = View(s, array)], x),
     array |-> IF s.shared /\ Len(s.elems) < s.cap
               THEN WriteSlot(array, Len(s.elems) + 1, x) ELSE array]

\* append(s, xs...)
RECURSIVE AppendAllShared(_, _, _)
AppendAllShared(array, s, xs) ==
    IF xs = <<>> THEN [slice |-> s, array |-> array]
    ELSE LET first == AppendShared(array, s, xs[1])
         IN AppendAllShared(first.array, first.slice, SubSeq(xs, 2, Len(xs)))

\* addNamespaces on a slice that may share the array of defaultNamespaces.
AddNamespacesShared(array, s, n, r) ==
    LET withNet == IF n.Net THEN AppendShared(array, s, "network")
                   ELSE [slice |-> s, array |-> array]
        withUser == IF n.User /\ Getuid(r).uid = 0
                    THEN AppendShared(withNet.array, withNet.slice, "user") ELSE withNet
        withUTS == IF n.UTS THEN AppendShared(withUser.array, withUser.slice, "uts")
                   ELSE withUser
    IN IF n.User /\ Getuid(r).err # "nil" THEN withNet ELSE withUTS

\* oci.DefaultCaps as getBaseCapabilities returns it: the package slice.
DefaultCapsSlice == Slice(DefaultCaps, Len(DefaultCaps), TRUE)

\* The launches run as root of the outer namespace.
LaunchRootless == [UIDEnv |-> "", euid |-> 0]

\* The options of a launch: the Net, User and UTS flags in every
\* combination (IPC and PID, which only log, set along with Net and UTS),
\* an add list, a drop list, root or not in the container.
LaunchOptions ==
    { [ns |-> f, cfg |-> CapOptions(FALSE, FALSE, a, d), targetUID |-> u] :
        f \in {g \in NamespaceFlags : g.IPC = g.Net /\ g.PID = g.UTS},
        a \in {<<>>, <<"CAP_SYS_ADMIN">>},
        d \in {<<>>, <<"CAP_CHOWN">>},
        u \in {0, 1000} }

NoOptions ==
    [ns |-> [IPC |-> FALSE, Net |-> FALSE, PID |-> FALSE, User |-> FALSE, UTS |-> FALSE],
     cfg |-> CapOptions(FALSE, FALSE, <<>>, <<>>), targetUID |-> 0]

NoSlice == Slice(<<>>, 0, FALSE)

\* No launch is in progress.
LaunchIdle ==
    /\ pkgNamespaces = defaultNamespaces
    /\ pkgCaps = DefaultCaps
    /\ launchPc = [l \in Launches |-> "idle"]
    /\ launchOpts = [l \in Launches |-> NoOptions]
    /\ launchSpec = [l \in Launches |-> NoSlice]
    /\ launchSlice = [l \in Launches |-> NoSlice]
    /\ launchCaps = [l \in Launches |-> NoCaps]

\* The package is loaded and neither launch has begun.
LaunchesNew ==
    /\ pkgNamespaces = defaultNamespaces
    /\ pkgCaps = DefaultCaps
    /\ launchPc = [l \in Launches |-> "new"]
    /\ launchOpts = [l \in Launches |-> NoOptions]
    /\ launchSpec = [l \in Launches |-> NoSlice]
    /\ launchSlice = [l \in Launches |-> NoSlice]
    /\ launchCaps = [l \in Launches |-> NoCaps]

\* A launch begins, with its options.
Begin(l) ==
    /\ launchPc[l] = "new"
    /\ \E o \in LaunchOptions : launchOpts' = [launchOpts EXCEPT ![l] = o]
    /\ launchPc' = [launchPc EXCEPT ![l] = "start"]
    /\ UNCHANGED <<pkgNamespaces, pkgCaps, launchSpec, launchSlice, launchCaps>>
    /\ UNCHANGED <<idVars, capVars, envVars, procVars, nsVars, mapVars, bundleVars, sectionVars>>

\* spec := minimalSpec()
LaunchMinimalSpec(l) ==
    /\ launchPc[l] = "start"
    /\ launchSpec' = [launchSpec EXCEPT ![l] = minimalSpec.Namespaces]
    /\ launchPc' = [launchPc EXCEPT ![l] = "spec"]
    /\ UNCHANGED <<pkgNamespaces, pkgCaps, launchOpts, launchSlice, launchCaps>>
    /\ UNCHANGED <<idVars, capVars, envVars, procVars, nsVars, mapVars, bundleVars, sectionVars>>

\* addNamespaces(&spec, ns)
LaunchAddNamespaces(l) ==
    /\ launchPc[l] = "spec"
    /\ LET r == AddNamespacesShared(pkgNamespaces, launchSpec[l], launchOpts[l].ns, LaunchRootless)
       IN /\ launchSpec' = [launchSpec EXCEPT ![l] = r.slice]
          /\ pkgNamespaces' = r.array
    /\ launchPc' = [launchPc EXCEPT ![l] = "ns"]
    /\ UNCHANGED <<pkgCaps, launchOpts, launchSlice, launchCaps>>
    /\ UNCHANGED <<idVars, capVars, envVars, procVars, nsVars, mapVars, bundleVars, sectionVars>>

\* getProcessCapabilities up to caps = append(caps, addCaps...), caps being
\* oci.DefaultCaps (neither NoPrivs nor KeepPrivs is set).
LaunchCapsAppend(l) ==
    /\ launchPc[l] = "ns"
    /\ LET r == AppendAllShared(pkgCaps, DefaultCapsSlice, Split(launchOpts[l].cfg.AddCaps).known)
       IN /\ launchSlice' = [launchSlice EXCEPT ![l] = r.slice]
          /\ pkgCaps' = r.array
    /\ launchPc' = [launchPc EXCEPT ![l] = "caps"]
    /\ UNCHANGED <<pkgNamespaces, launchOpts, launchSpec, launchCaps>>
    /\ UNCHANGED <<idVars, capVars, envVars, procVars, nsVars, mapVars, bundleVars, sectionVars>>

\* The rest of getProcessCapabilities: duplicates removed, the drop list
\* taken out, the five sets built.
LaunchCapsFinish(l) ==
    /\ launchPc[l] = "caps"
    /\ LET computed == Without(RemoveDuplicated(View(launchSlice[l], pkgCaps)),
                                Split(launchOpts[l].cfg.DropCaps).known)
       IN launchCaps' = [launchCaps EXCEPT ![l] =
                            IF launchOpts[l].targetUID = 0 THEN RootCaps(computed)
                            ELSE NonRootCaps(computed, ExplicitCaps(launchOpts[l].cfg))]
    /\ launchPc' = [launchPc EXCEPT ![l] = "done"]
    /\ UNCHANGED <<pkgNamespaces, pkgCaps, launchOpts, launchSpec, launchSlice>>
    /\ UNCHANGED <<idVars, capVars, envVars, procVars, nsVars, mapVars, bundleVars, sectionVars>>

\* The launch is over; the next one of this caller starts afresh.
LaunchAgain(l) ==
    /\ launchPc[l] = "done"
    /\ launchPc' = [launchPc EXCEPT ![l] = "new"]
    /\ launchOpts' = [launchOpts EXCEPT ![l] = NoOptions]
    /\ launchSpec' = [launchSpec EXCEPT ![l] = NoSlice]
    /\ launchSlice' = [launchSlice EXCEPT ![l] = NoSlice]
    /\ launchCaps' = [launchCaps EXCEPT ![l] = NoCaps]
    /\ UNCHANGED <<pkgNamespaces, pkgCaps>>
    /\ UNCHANGED <<idVars, capVars, envVars, procVars, nsVars, mapVars, bundleVars, sectionVars>>

LaunchNext ==
    \E l \in Launches :
        \/ Begin(l)
        \/ LaunchMinimalSpec(l)
        \/ LaunchAddNamespaces(l)
        \/ LaunchCapsAppend(l)
        \/ LaunchCapsFinish(l)
        \/ LaunchAgain(l)

(***************************************************************************)
(* apptainerEnvMap on its own                                              *)
(***************************************************************************)

\* Names of host variables: without the prefix, with the prefix inside the
\* name, and with the prefix in front of a name or of nothing.
HostNames ==
    << <<"FOO">>, <<"MY_", "APPTAINERENV_", "FOO">>, <<"APPTAINERENV_", "FOO">>,
       <<"APPTAINERENV_", "ABC">>, <<"APPTAINERENV_">> >>

\* Values of host variables: plain, empty, and with "=" inside.
HostValues == {<<"bar">>, <<>>, <<"a", "=", "b">>}

\* os.Environ(): each name at most once, with one of the values.
Environs ==
    { Present([i \in 1..Len(HostNames) |->
                    IF v[i] = Absent THEN Absent ELSE KeyValue(HostNames[i], v[i])]) :
        v \in [1..Len(HostNames) -> Maybe(HostValues)] }

\* No apptainerEnvMap call is in progress.
MapIdle ==
    /\ mapPc = "idle"
    /\ osEnviron = <<>>
    /\ apptainerEnv = EmptyMap

MapCall ==
    /\ mapPc = "call"
    /\ osEnviron \in Environs
    /\ apptainerEnv = EmptyMap

\* One call of apptainerEnvMap.
ApptainerEnvMap ==
    /\ mapPc = "call"
    /\ apptainerEnv' = apptainerEnvMap(osEnviron)
    /\ mapPc' = "done"
    /\ UNCHANGED osEnviron
    /\ UNCHANGED <<idVars, capVars, envVars, procVars, nsVars, launchVars, bundleVars, sectionVars>>

MapNext == ApptainerEnvMap

(***************************************************************************)
(* lockBundle and releaseBundle                                            *)
(*                                                                         *)
(* Processes share one bundle directory.  Each call is a sequence of       *)
(* steps: the stat of the lock file, the exclusive lock on the directory,  *)
(* the creation or the removal of the lock file, and the deferred release  *)
(* of the directory lock as the call returns.                              *)
(***************************************************************************)

Processes == {"p1", "p2"}

BundleOps == {"lockBundle", "releaseBundle"}

\* os.Stat of the lock file: nil when it exists, ENOENT when it does not, or
\* some other error.
Stat(exists) == {IF exists THEN "nil" ELSE "ENOENT", "EACCES"}

\* fs.EnsureFileWithPermission: creates the file when it is missing and
\* otherwise only sets the permission of the one that is there; or fails and
\* leaves the directory as it was.
EnsureFileWithPermission(exists) ==
    {[err |-> "nil", exists |-> TRUE], [err |-> "EACCES", exists |-> exists]}

\* os.Remove of the lock file.
Remove(exists) ==
    IF exists
    THEN {[err |-> "nil", exists |-> FALSE], [err |-> "EACCES", exists |-> TRUE]}
    ELSE {[err |-> "ENOENT", exists |-> FALSE]}

\* No process is in a call; the bundle is unlocked.
BundleIdle ==
    /\ lockFile = FALSE
    /\ dirLock = "none"
    /\ bundlePc = [q \in Processes |-> "idle"]
    /\ bundleOp = [q \in Processes |-> "lockBundle"]
    /\ bundleErr = [q \in Processes |-> "nil"]
    /\ lockHolders = {}

\* A process calls lockBundle or releaseBundle on the bundle.
BundleCall(q) ==
    /\ bundlePc[q] \in {"idle", "done"}
    /\ \E o \in BundleOps : bundleOp' = [bundleOp EXCEPT ![q] = o]
    /\ bundlePc' = [bundlePc EXCEPT ![q] = "stat"]
    /\ bundleErr' = [bundleErr EXCEPT ![q] = "nil"]
    /\ UNCHANGED <<lockFile, dirLock, lockHolders>>
    /\ UNCHANGED <<idVars, capVars, envVars, procVars, nsVars, launchVars, mapVars, sectionVars>>

\* lockBundle up to the directory lock: the call returns when the lock file
\* is there or cannot be looked at.
LockBundleStat(q) ==
    /\ bundlePc[q] = "stat" /\ bundleOp[q] = "lockBundle"
    /\ \E r \in Stat(lockFile) :
        IF r = "nil"
        THEN /\ bundleErr' = [bundleErr EXCEPT ![q] = "bundle is locked by another process"]
             /\ bundlePc' = [bundlePc EXCEPT ![q] = "done"]
        ELSE IF r # "ENOENT"
        THEN /\ bundleErr' = [bundleErr EXCEPT ![q] = "while stat-ing lock file"]
             /\ bundlePc' = [bundlePc EXCEPT ![q] = "done"]
        ELSE /\ bundlePc' = [bundlePc EXCEPT ![q] = "lock"]
             /\ UNCHANGED bundleErr
    /\ UNCHANGED <<lockFile, dirLock, bundleOp, lockHolders>>
    /\ UNCHANGED <<idVars, capVars, envVars, procVars, nsVars, launchVars, mapVars, sectionVars>>

\* releaseBundle up to the directory lock: the call returns when the lock
\* file is not there or cannot be looked at.
ReleaseBundleStat(q) ==
    /\ bundlePc[q] = "stat" /\ bundleOp[q] = "releaseBundle"
    /\ \E r \in Stat(lockFile) :
        IF r = "ENOENT"
        THEN /\ bundleErr' = [bundleErr EXCEPT ![q] = "bundle is not locked"]
             /\ bundlePc' = [bundlePc EXCEPT ![q] = "done"]
        ELSE IF r # "nil"
        THEN /\ bundleErr' = [bundleErr EXCEPT ![q] = "while stat-ing lock file"]
             /\ bundlePc' = [bundlePc EXCEPT ![q] = "done"]
        ELSE /\ bundlePc' = [bundlePc EXCEPT ![q] = "lock"]
             /\ UNCHANGED bundleErr
    /\ UNCHANGED <<lockFile, dirLock, bundleOp, lockHolders>>
    /\ UNCHANGED <<idVars, capVars, envVars, procVars, nsVars, launchVars, mapVars, sectionVars>>

\* lock.Exclusive(bundlePath) returns the lock: it waits while another
\* process holds it.
Exclusive(q) ==
    /\ bundlePc[q] = "lock"
    /\ dirLock = "none"
    /\ dirLock' = q
    /\ bundlePc' = [bundlePc EXCEPT ![q] = "locked"]
    /\ UNCHANGED <<lockFile, bundleOp, bundleErr, lockHolders>>
    /\ UNCHANGED <<idVars, capVars, envVars, procVars, nsVars, launchVars, mapVars, sectionVars>>

\* lock.Exclusive(bundlePath) returns an error, and so does the call.
ExclusiveFails(q) ==
    /\ bundlePc[q] = "lock"
    /\ bundleErr' = [bundleErr EXCEPT ![q] = "while acquiring directory lock"]
    /\ bundlePc' = [bundlePc EXCEPT ![q] = "done"]
    /\ UNCHANGED <<lockFile, dirLock, bundleOp, lockHolders>>
    /\ UNCHANGED <<idVars, capVars, envVars, procVars, nsVars, launchVars, mapVars, sectionVars>>

\* lockBundle under the directory lock: the lock file is ensured.
LockBundleEnsure(q) ==
    /\ bundlePc[q] = "locked" /\ bundleOp[q] = "lockBundle"
    /\ \E r \in EnsureFileWithPermission(lockFile) :
        /\ lockFile' = r.exists
        /\ bundleErr' = [bundleErr EXCEPT ![q] =
                            IF r.err = "nil" THEN "nil" ELSE "while creating lock file"]
    /\ bundlePc' = [bundlePc EXCEPT ![q] = "unlock"]
    /\ UNCHANGED <<dirLock, bundleOp, lockHolders>>
    /\ UNCHANGED <<idVars, capVars, envVars, procVars, nsVars, launchVars, mapVars, sectionVars>>

\* releaseBundle under the directory lock: the lock file is removed.
ReleaseBundleRemove(q) ==
    /\ bundlePc[q] = "locked" /\ bundleOp[q] = "releaseBundle"
    /\ \E r \in Remove(lockFile) :
        /\ lockFile' = r.exists
        /\ bundleErr' = [bundleErr EXCEPT ![q] =
                            IF r.err = "nil" THEN "nil" ELSE "while removing lock file"]
    /\ bundlePc' = [bundlePc EXCEPT ![q] = "unlock"]
    /\ UNCHANGED <<dirLock, bundleOp, lockHolders>>
    /\ UNCHANGED <<idVars, capVars, envVars, procVars, nsVars, launchVars, mapVars, sectionVars>>

\* The deferred lock.Release(fd) runs and the call returns its err.
Release(q) ==
    /\ bundlePc[q] = "unlock"
    /\ dirLock' = "none"
    /\ bundlePc' = [bundlePc EXCEPT ![q] = "done"]
    /\ lockHolders' =
        IF bundleErr[q] # "nil" THEN lockHolders
        ELSE IF bundleOp[q] = "lockBundle" THEN lockHolders \cup {q}
        ELSE {}
    /\ UNCHANGED <<lockFile, bundleOp, bundleErr>>
    /\ UNCHANGED <<idVars, capVars, envVars, procVars, nsVars, launchVars, mapVars, sectionVars>>

BundleNext ==
    \E q \in Processes :
        \/ BundleCall(q)
        \/ LockBundleStat(q)
        \/ ReleaseBundleStat(q)
        \/ Exclusive(q)
        \/ ExclusiveFails(q)
        \/ LockBundleEnsure(q)
        \/ ReleaseBundleRemove(q)
        \/ Release(q)

(***************************************************************************)
(* lockSection                                                             *)
(*                                                                         *)
(* readLocks and writeLocks are package maps from an image path to the     *)
(* list of sections this process recorded.  A path that is not a key of    *)
(* the Go map is modelled as a path with the empty list: the loops over    *)
(* the list find nothing and append starts a list, in both.  A section is  *)
(* modelled by the two fields lockSection reads, Offset and Size.          *)
(***************************************************************************)

\* Bound on the number of sections recorded in the two maps together.
MaxRecorded == 3

\* math.MaxInt64, scaled down to the offsets and sizes of the model.
MaxInt64 == 100

Paths == {"/a.sif", "/b.sif"}

Section(offset, size) == [Offset |-> offset, Size |-> size]

\* Sections that share an offset or a size without being the same, and
\* sections whose offset or size does not fit an int64.
Sections ==
    {Section(0, 10), Section(0, 20), Section(10, 10),
     Section(MaxInt64 + 1, 10), Section(0, MaxInt64 + 1)}

Images == [Path : Paths, Writable : BOOLEAN]

\* What br.Lock() and br.RLock() return: nil, the two errors of the lock
\* package that lockSection tells apart, or another error of fcntl.
LockErrs == {"nil", "ErrByteRangeAcquired", "ErrLockNotSupported", "EBADF"}

\* safecast.ToInt64 of a uint64.
ToInt64(x) == [ok |-> x <= MaxInt64, value |-> x]

\* The loops over a list of recorded sections: one with the same Offset and
\* the same Size is there.
Recorded(sections, section) ==
    \E k \in 1..Len(sections) :
        sections[k].Offset = section.Offset /\ sections[k].Size = section.Size

\* The end of lockSection: what is returned for the err of the lock.
LockErrResult(i, err) ==
    IF err = "ErrByteRangeAcquired"
    THEN IF i.Writable THEN "for writing, currently in use by another process"
         ELSE "for reading, currently in use for writing by another process"
    ELSE IF err = "ErrLockNotSupported" THEN "nil"
    ELSE err

\* lockSection: the returned err and the two maps as the call leaves them.
\* lockErr is what the byte-range lock of this call gives.
lockSection(i, section, lockErr, rl, wl) ==
    LET same == [err |-> "", readLocks |-> rl, writeLocks |-> wl]
    IN  IF ~ToInt64(section.Offset).ok \/ ~ToInt64(section.Size).ok
        THEN [same EXCEPT !.err = "safecast"]
        ELSE IF i.Writable
        THEN IF lockErr = "nil"
             THEN IF Recorded(rl[i.Path], section)
                  THEN [same EXCEPT !.err = "for writing, already used for reading by this process"]
                  ELSE IF Recorded(wl[i.Path], section)
                  THEN [same EXCEPT !.err = "for writing, already used for writing by this process"]
                  ELSE [same EXCEPT !.err = "nil",
                                    !.writeLocks = [wl EXCEPT ![i.Path] = Append(@, section)]]
             ELSE [same EXCEPT !.err = LockErrResult(i, lockErr)]
        ELSE IF lockErr = "nil"
             THEN IF Recorded(wl[i.Path], section)
                  THEN [same EXCEPT !.err = "for reading, already used for writing by this process"]
                  ELSE [same EXCEPT !.err = "nil",
                                    !.readLocks = [rl EXCEPT ![i.Path] = Append(@, section)]]
             ELSE [same EXCEPT !.err = LockErrResult(i, lockErr)]

NoLocks == [f \in Paths |-> <<>>]

\* The number of sections the two maps hold.
RECURSIVE CountRecorded(_, _)
CountRecorded(m, ps) ==
    IF ps = {} THEN 0
    ELSE LET f == CHOOSE x \in ps : TRUE
         IN Len(m[f]) + CountRecorded(m, ps \ {f})

\* The process has locked no section and is in no call.
SectionIdle ==
    /\ readLocks = NoLocks
    /\ writeLocks = NoLocks
    /\ secPc = "idle"
    /\ secImage = [Path |-> "/a.sif", Writable |-> FALSE]
    /\ secSection = Section(0, 10)
    /\ secLockErr = "nil"
    /\ secErr = "nil"

\* The process calls lockSection on a section of an image.
SectionCall ==
    /\ secPc \in {"idle", "done"}
    /\ CountRecorded(readLocks, Paths) + CountRecorded(writeLocks, Paths) < MaxRecorded
    /\ secImage' \in Images
    /\ secSection' \in Sections
    /\ secLockErr' \in LockErrs
    /\ secPc' = "call"
    /\ secErr' = "nil"
    /\ UNCHANGED <<readLocks, writeLocks>>
    /\ UNCHANGED <<idVars, capVars, envVars, procVars, nsVars, launchVars, mapVars, bundleVars>>

\* One call of lockSection.
LockSection ==
    /\ secPc = "call"
    /\ LET r == lockSection(secImage, secSection, secLockErr, readLocks, writeLocks)
       IN /\ readLocks' = r.readLocks
          /\ writeLocks' = r.writeLocks
          /\ secErr' = r.err
    /\ secPc' = "done"
    /\ UNCHANGED <<secImage, secSection, secLockErr>>
    /\ UNCHANGED <<idVars, capVars, envVars, procVars, nsVars, launchVars, mapVars, bundleVars>>

SectionNext == SectionCall \/ LockSection

(***************************************************************************)
(* Specifications: one per component, the other components at rest         *)
(***************************************************************************)

IDInit == IDCall /\ CapIdle /\ EnvIdle /\ ProcIdle /\ NsIdle /\ LaunchIdle /\ MapIdle /\ BundleIdle /\ SectionIdle

SpecIDMap == IDInit /\ [][IDNext]_vars

CapInit == CapCall /\ IDIdle /\ EnvIdle /\ ProcIdle /\ NsIdle /\ LaunchIdle /\ MapIdle /\ BundleIdle /\ SectionIdle

SpecCaps == CapInit /\ [][CapNext]_vars

EnvInit == EnvCall /\ IDIdle /\ CapIdle /\ ProcIdle /\ NsIdle /\ LaunchIdle /\ MapIdle /\ BundleIdle /\ SectionIdle

SpecEnv == EnvInit /\ [][EnvNext]_vars

ProcInit == ProcCall /\ IDIdle /\ CapRest /\ EnvIdle /\ NsIdle /\ LaunchIdle /\ MapIdle /\ BundleIdle /\ SectionIdle

SpecProcess == ProcInit /\ [][ProcNext]_vars

NsInit == NsCall /\ IDIdle /\ CapIdle /\ EnvIdle /\ ProcIdle /\ LaunchIdle /\ MapIdle /\ BundleIdle /\ SectionIdle

SpecNamespaces == NsInit /\ [][NsNext]_vars

LaunchInit == LaunchesNew /\ IDIdle /\ CapIdle /\ EnvIdle /\ ProcIdle /\ NsIdle /\ MapIdle /\ BundleIdle /\ SectionIdle

SpecLaunches == LaunchInit /\ [][LaunchNext]_vars

MapInit == MapCall /\ IDIdle /\ CapIdle /\ EnvIdle /\ ProcIdle /\ NsIdle /\ LaunchIdle /\ BundleIdle /\ SectionIdle

SpecEnvMap == MapInit /\ [][MapNext]_vars

BundleInit ==
    BundleIdle /\ IDIdle /\ CapIdle /\ EnvIdle /\ ProcIdle /\ NsIdle /\ LaunchIdle /\ MapIdle
        /\ SectionIdle

SpecBundle == BundleInit /\ [][BundleNext]_vars

SectionInit ==
    SectionIdle /\ IDIdle /\ CapIdle /\ EnvIdle /\ ProcIdle /\ NsIdle /\ LaunchIdle /\ MapIdle
        /\ BundleIdle

SpecSections == SectionInit /\ [][SectionNext]_vars

(***************************************************************************)
(* Claims about the reverse ID mapping (checked under SpecIDMap)           *)
(***************************************************************************)

IDReturned == idPc = "done" /\ idErr = "nil"

\* The container IDs a claim is probed with: the mapping is piecewise linear
\* with breakpoints at 0, the target and the range size, so the IDs within
\* MaxDelta of a breakpoint (and one in the middle of the low block) show
\* every piece and every boundary.
ProbeIDs(t, r) == Around(0) \cup {1000} \cup Around(t) \cup Around(r)

TargetToRoot(m, t, r) ==
    /\ Resolve(m, t) = {0}
    /\ \A c \in ProbeIDs(t, r) : (c < t /\ c < r) => Resolve(m, c) = {c + 1}

\* C1: in the UID map and in the GID map that reverseMapByRange returns for a
\* range size >= 65536, the target container ID resolves to host ID 0 and
\* every container ID c below the target and below the range size resolves
\* to host ID c + 1 (first matching entry wins).
C1_TargetResolvesToRoot ==
    IDReturned =>
        /\ TargetToRoot(uidMap, targetUID, subuidRange.Size)
        /\ TargetToRoot(gidMap, targetGID, subgidRange.Size)

\* C1 witness: a target inside the range and a target beyond it, each with
\* an ID of the low block resolved.
C1_Witness ==
    /\ IDReturned
    /\ targetUID = 1000 /\ Resolve(uidMap, 999) = {1000} /\ Resolve(uidMap, 1000) = {0}
    /\ targetGID > subgidRange.Size
    /\ Resolve(gidMap, subgidRange.Size - 1) = {subgidRange.Size}
    /\ Resolve(gidMap, targetGID) = {0}

Intersect(a, b) ==
    LET lo == IF a.ContainerID >= b.ContainerID THEN a.ContainerID ELSE b.ContainerID
        ea == a.ContainerID + a.Size
        eb == b.ContainerID + b.Size
        hi == IF ea <= eb THEN ea ELSE eb
    IN lo < hi

ContainerDisjoint(m) ==
    \A i, j \in 1..Len(m) : i # j => ~Intersect(m[i], m[j])

\* C2: any two distinct entries of a mapping returned by one call have
\* container-ID ranges [ContainerID, ContainerID + Size) that do not
\* intersect.
C2_ContainerRangesDisjoint ==
    IDReturned => ContainerDisjoint(uidMap) /\ ContainerDisjoint(gidMap)

\* C2 witness: three-entry maps whose neighbouring entries touch.
C2_Witness ==
    /\ IDReturned
    /\ Len(uidMap) = 3 /\ Len(gidMap) = 3
    /\ targetGID >= 1
    /\ gidMap[1].ContainerID + gidMap[1].Size = gidMap[2].ContainerID
    /\ gidMap[2].ContainerID + gidMap[2].Size = gidMap[3].ContainerID

EntriesPositive(m) == \A i \in 1..Len(m) : m[i].Size >= 1

\* C3: every entry of every UID or GID mapping returned has size >= 1, for
\* every target >= 0 and every range size >= 65536.
C3_EntriesHaveSize ==
    IDReturned => EntriesPositive(uidMap) /\ EntriesPositive(gidMap)

\* C4: getReverseUserMaps returns an error and neither map whenever the
\* sub-UID or the sub-GID range cannot be read or has a size below 65536,
\* and returns the maps only when both sizes are >= 65536.
IDRangeUsable(r) == r.ok /\ r.Size >= 65536

C4_SmallRangeFails ==
    idPc = "done" =>
        /\ (~IDRangeUsable(subuidRange) \/ ~IDRangeUsable(subgidRange))
              => (idErr # "nil" /\ uidMap = <<>> /\ gidMap = <<>>)
        /\ (IDRangeUsable(subuidRange) /\ IDRangeUsable(subgidRange))
              => (idErr = "nil" /\ Len(uidMap) >= 2 /\ Len(gidMap) >= 2)

\* C4 witness: the sub-UID range is fine and the sub-GID range is one short.
C4_Witness ==
    /\ idPc = "done"
    /\ IDRangeUsable(subuidRange)
    /\ subgidRange.ok /\ subgidRange.Size = 65535
    /\ idErr = "subgid range size"


(***************************************************************************)
(* Claims about the capability sets (checked under SpecCaps)               *)
(***************************************************************************)

CapReturned == capPc = "done" /\ capErr = "nil"

\* The sets the claims speak of, taken from the options and not from the
\* lists the code builds.
AddSet == Range(cfg.AddCaps) \cap KnownCaps

DropSet == Range(cfg.DropCaps)

BaseSet ==
    IF cfg.NoPrivs THEN {}
    ELSE IF cfg.KeepPrivs THEN Range(hostEffective.caps)
    ELSE Range(DefaultCaps)

ComputedSet == (BaseSet \cup AddSet) \ DropSet

\* C5: for target UID 0, permitted = effective = bounding = the computed set
\* (base plus add, minus drop), and inheritable and ambient are empty, for
\* any add and drop lists and any base policy.
C5_RootSets ==
    (CapReturned /\ capTargetUID = 0) =>
        /\ caps.Permitted = caps.Bounding
        /\ caps.Effective = caps.Bounding
        /\ Range(caps.Bounding) = ComputedSet
        /\ caps.Inheritable = <<>>
        /\ caps.Ambient = <<>>

\* C5 witness: root in the container, with a name added, a default name
\* dropped and a non-empty result.
C5_Witness ==
    /\ CapReturned /\ capTargetUID = 0
    /\ ~cfg.NoPrivs /\ ~cfg.KeepPrivs
    /\ cfg.AddCaps = <<"CAP_SYS_ADMIN">> /\ cfg.DropCaps = <<"CAP_CHOWN">>
    /\ caps.Permitted = <<"CAP_KILL", "CAP_SYS_ADMIN">>

\* C6: for a target UID other than 0, permitted = effective = inheritable =
\* ambient = exactly (add minus drop) whatever the base policy, so a
\* capability that is only in the base set is in none of the four; and that
\* set is a subset of the bounding set.
C6_NonRootSets ==
    (CapReturned /\ capTargetUID # 0) =>
        /\ caps.Effective = caps.Permitted
        /\ caps.Inheritable = caps.Permitted
        /\ caps.Ambient = caps.Permitted
        /\ Range(caps.Permitted) = AddSet \ DropSet
        /\ \A c \in BaseSet \ AddSet : c \notin Range(caps.Permitted)
        /\ Range(caps.Permitted) \subseteq Range(caps.Bounding)

\* C6 witness: a non-root target whose bounding set holds base capabilities
\* that the permitted set does not.
C6_Witness ==
    /\ CapReturned /\ capTargetUID = 1000
    /\ cfg.AddCaps = <<"CAP_SYS_ADMIN">>
    /\ caps.Permitted = <<"CAP_SYS_ADMIN">>
    /\ caps.Bounding = <<"CAP_CHOWN", "CAP_KILL", "CAP_SYS_ADMIN">>

\* C7: every returned capability set has effective within permitted and
\* ambient within permitted and inheritable, for any target UID, policy, add
\* and drop list.
C7_SetInclusions ==
    CapReturned =>
        /\ Range(caps.Effective) \subseteq Range(caps.Permitted)
        /\ Range(caps.Ambient) \subseteq (Range(caps.Permitted) \cap Range(caps.Inheritable))

\* C7 witness: a non-root target with a non-empty ambient set next to a
\* larger bounding set.
C7_Witness ==
    /\ CapReturned /\ capTargetUID = 1
    /\ caps.Ambient # <<>>
    /\ Range(caps.Ambient) # Range(caps.Bounding)

NoDuplicates(l) == \A i, j \in 1..Len(l) : i # j => l[i] # l[j]

\* C8: the bounding set is (base + add) - drop with no name twice, where base
\* is empty under no-privileges (also together with keep-host-privileges),
\* the host's effective set under keep-host-privileges alone and the default
\* set otherwise; unknown names in add or drop are ignored and never make
\* the call fail.
C8_BoundingSet ==
    /\ CapReturned =>
          /\ Range(caps.Bounding) = ComputedSet
          /\ NoDuplicates(caps.Bounding)
          /\ Range(caps.Bounding) \subseteq KnownCaps
    /\ (capPc = "done" /\ capErr # "nil") =>
          (cfg.KeepPrivs /\ ~cfg.NoPrivs /\ ~hostEffective.ok)

\* C8 witness: both policies asked for, a name added twice, an unknown name
\* in each list.
C8_Witness ==
    /\ CapReturned
    /\ cfg.NoPrivs /\ cfg.KeepPrivs /\ hostEffective.caps # <<>>
    /\ cfg.AddCaps = <<"CAP_CHOWN", "CAP_CHOWN">>
    /\ cfg.DropCaps = <<"CAP_BOGUS">>
    /\ caps.Bounding = <<"CAP_CHOWN">>

(***************************************************************************)
(* Claims about getProcessEnv (checked under SpecEnv)                      *)
(***************************************************************************)

\* The values the entries of key k have in a KEY=VALUE list.
EntryIndexes(env, k) ==
    {i \in 1..Len(env) : Len(SplitN2(env[i])) = 2 /\ SplitN2(env[i])[1] = k}

EnvValues(env, k) == {SplitN2(env[i])[2] : i \in EntryIndexes(env, k)}

\* The ':'-separated elements of a value.
RECURSIVE Elements(_)
Elements(str) ==
    IF IndexOf(str, ":") = 0 THEN <<str>>
    ELSE <<SubSeq(str, 1, IndexOf(str, ":") - 1)>>
            \o Elements(SubSeq(str, IndexOf(str, ":") + 1, Len(str)))

Occurrences(str, dir) ==
    Cardinality({i \in 1..Len(Elements(str)) : Elements(str)[i] = dir})

\* C9: for every image environment and every runtime environment, the
\* LD_LIBRARY_PATH entry of the list getProcessEnv returns contains the
\* library bind path /.singularity.d/libs exactly once as a ':'-separated
\* element.
C9_LibsExactlyOnce ==
    envPc = "done" =>
        /\ Cardinality(EntryIndexes(processEnv, LD_LIBRARY_PATH)) = 1
        /\ \A v \in EnvValues(processEnv, LD_LIBRARY_PATH) :
                Occurrences(v, <<"/.singularity.d/libs">>) = 1

(***************************************************************************)
(* Claims about getProcess (checked under SpecProcess)                     *)
(***************************************************************************)

ProcReturned == procPc = "done" /\ procErr = "nil"

\* The layers of the environment, lowest precedence first, each as the map
\* of the keys it sets: image env, runtime defaults, host TERM,
\* APPTAINERENV_ variables, environment file, --env pairs.
Layers ==
    << EnvListLoop(imgSpec.Env, 1, <<>>, {}, EmptyMap),
       defaultEnv(ep.Image, bundle),
       IF LookupEnv(host.environ, <<"TERM">>).set
       THEN OneKey(<<"TERM">>, LookupEnv(host.environ, <<"TERM">>).value) ELSE EmptyMap,
       apptainerEnvMap(host.environ),
       IF cfg.EnvFile # "" THEN envFileMap(host.envFile).map ELSE EmptyMap,
       cfg.Env >>

SetKeys == UNION {DOMAIN Layers[i] : i \in 1..6}

RuntimeKeys == UNION {DOMAIN Layers[i] : i \in 2..6}

\* The value the highest-precedence layer that sets k gives it.
Highest(k) ==
    LET top == CHOOSE i \in 1..6 :
                    k \in DOMAIN Layers[i] /\ \A j \in (i + 1)..6 : k \notin DOMAIN Layers[j]
    IN Layers[top][k]

FollowsPrecedence(k) == EnvValues(process.Env, k) = {Highest(k)}

C11_HomeForcedUnlessImageUser ==
    ProcReturned =>
        /\ imgSpec.User = "" => EnvValues(process.Env, <<"HOME">>) = {launcher.homeDest}
        /\ imgSpec.User # "" =>
                IF <<"HOME">> \in SetKeys THEN FollowsPrecedence(<<"HOME">>)
                ELSE EnvValues(process.Env, <<"HOME">>) = {}

\* C11 witness: no image user, HOME set by the image, an APPTAINERENV_
\* variable, the environment file and --env, and HOME is the home directory.
C11_Witness ==
    /\ ProcReturned
    /\ imgSpec.User = ""
    /\ \A i \in {1, 4, 5, 6} : <<"HOME">> \in DOMAIN Layers[i]
    /\ Highest(<<"HOME">>) = <<"/c">>
    /\ EnvValues(process.Env, <<"HOME">>) = {<<"/home/user">>}

\* getProcess took the arguments from getProcessArgs.
ArgsFromImage == ProcReturned /\ ~launcher.nativeSIF /\ ep.Action # "shell"

\* C12: getProcessArgs returns the entrypoint followed by the image default
\* command when neither process name nor arguments are given; the entrypoint
\* followed by the explicit arguments when only arguments are given; the
\* process name followed by the explicit arguments when both are given; and
\* the process name alone when only a process name is given.
C12_ProcessArgsCases ==
    ArgsFromImage =>
        /\ (ep.Process = "" /\ ep.Args = <<>>) =>
                process.Args = imgSpec.Entrypoint \o imgSpec.Cmd
        /\ (ep.Process = "" /\ ep.Args # <<>>) =>
                process.Args = imgSpec.Entrypoint \o ep.Args
        /\ (ep.Process # "" /\ ep.Args # <<>>) =>
                process.Args = <<ep.Process>> \o ep.Args
        /\ (ep.Process # "" /\ ep.Args = <<>>) =>
                process.Args = <<ep.Process>>

\* C12 witness: a process name without arguments, an image with an
\* entrypoint and a default command, and the process name is all there is.
C12_Witness ==
    /\ ArgsFromImage
    /\ ep.Process = "/bin/bar"
    /\ ep.Args = <<>>
    /\ imgSpec.Entrypoint = <<"/bin/foo", "-e">>
    /\ imgSpec.Cmd = <<"--flag", "value">>
    /\ process.Args = <<"/bin/bar">>

(***************************************************************************)
(* Claims about addNamespaces (checked under SpecNamespaces)               *)
(***************************************************************************)

NsReturned == nsPc = "done" /\ nsErr = "nil"

Namespaces == spec.Namespaces.elems

OnlyPidIpc == (ns.PID \/ ns.IPC) /\ ~ns.Net /\ ~ns.User /\ ~ns.UTS

\* C13: requesting only the PID flag, only the IPC flag, or both, makes
\* addNamespaces on a minimalSpec succeed and leave the namespace list
\* exactly the default list IPC, PID, Mount.
C13_PidIpcRedundant ==
    (nsPc = "done" /\ OnlyPidIpc) => (nsErr = "nil" /\ Namespaces = <<"ipc", "pid", "mount">>)

\* C13 witness: the call with both flags has returned, on a host whose UID
\* variable is not a number.
C13_Witness ==
    /\ nsPc = "done"
    /\ ns.PID /\ ns.IPC /\ ~ns.Net /\ ~ns.User /\ ~ns.UTS
    /\ rootless.UIDEnv = "abc"
    /\ Len(Namespaces) = 3

\* C14: after addNamespaces on a spec from minimalSpec, for every
\* combination of the five flags and every host UID, no namespace kind is
\* in the namespace list more than once.
C14_NoDuplicateKinds ==
    nsPc = "done" =>
        \A i, j \in 1..Len(Namespaces) : Namespaces[i] = Namespaces[j] => i = j

\* C14 witness: all five flags as root, and six entries.
C14_Witness ==
    /\ NsReturned
    /\ ns.IPC /\ ns.PID /\ ns.Net /\ ns.User /\ ns.UTS
    /\ Getuid(rootless).uid = 0
    /\ Len(Namespaces) = 6

\* C15: the namespace list after a successful addNamespaces on a
\* minimalSpec is IPC, PID, Mount, then Network if the Net flag is set, then
\* User if the User flag is set and the host UID is 0, then UTS if the UTS
\* flag is set; with the User flag and a non-zero UID the call succeeds and
\* adds no User entry.
C15_NamespaceList ==
    /\ NsReturned =>
            Namespaces = <<"ipc", "pid", "mount">>
                            \o (IF ns.Net THEN <<"network">> ELSE <<>>)
                            \o (IF ns.User /\ Getuid(rootless).uid = 0 THEN <<"user">> ELSE <<>>)
                            \o (IF ns.UTS THEN <<"uts">> ELSE <<>>)
    /\ (nsPc = "done" /\ ns.User /\ Getuid(rootless).err = "nil" /\ Getuid(rootless).uid # 0)
            => nsErr = "nil"

\* C15 witness: Net, User and UTS flags as UID 1000, and the list is the
\* defaults, Network, UTS.
C15_Witness ==
    /\ NsReturned
    /\ ns.Net /\ ns.User /\ ns.UTS
    /\ Getuid(rootless).uid = 1000
    /\ Namespaces = <<"ipc", "pid", "mount", "network", "uts">>

(***************************************************************************)
(* Claims about the shape of the reverse ID mapping (checked under         *)
(* SpecIDMap)                                                              *)
(***************************************************************************)

\* The three entries with a remainder entry of the given size.
ThreeEntries(t, remainder) ==
    << LinuxIDMapping(0, 1, t), LinuxIDMapping(t, 0, 1), LinuxIDMapping(t + 1, t + 1, remainder) >>

LastContainerID(e) == e.ContainerID + e.Size - 1

\* C16 as stated: when target < range_size the mapping has exactly three
\* entries in this order: container IDs [0, target) from host IDs
\* [1, target+1); container ID target from host ID 0; and a remainder entry
\* for container IDs [target+1, range_size) from host IDs
\* [target+1, range_size), of size range_size - target - 1, whose last
\* container ID is range_size - 1.
C16_RemainderEndsBelowRangeSize ==
    IDReturned =>
        /\ targetUID < subuidRange.Size =>
                /\ uidMap = ThreeEntries(targetUID, subuidRange.Size - targetUID - 1)
                /\ LastContainerID(uidMap[3]) = subuidRange.Size - 1
        /\ targetGID < subgidRange.Size =>
                /\ gidMap = ThreeEntries(targetGID, subgidRange.Size - targetGID - 1)
                /\ LastContainerID(gidMap[3]) = subgidRange.Size - 1

\* C16 as amended: when target < range_size the mapping has exactly three
\* entries in this order: container IDs [0, target) from host IDs
\* [1, target+1); container ID target from host ID 0; and a remainder entry
\* for container IDs [target+1, range_size] from host IDs
\* [target+1, range_size], of size range_size - target, whose last
\* container ID is range_size.
C16_RemainderEndsAtRangeSize ==
    IDReturned =>
        /\ targetUID < subuidRange.Size =>
                /\ uidMap = ThreeEntries(targetUID, subuidRange.Size - targetUID)
                /\ LastContainerID(uidMap[3]) = subuidRange.Size
        /\ targetGID < subgidRange.Size =>
                /\ gidMap = ThreeEntries(targetGID, subgidRange.Size - targetGID)
                /\ LastContainerID(gidMap[3]) = subgidRange.Size

\* C16 witness: target 1000 in a range of 65536 IDs, and container ID 65536
\* resolves to host ID 65536 through the remainder entry.
C16_Witness ==
    /\ IDReturned
    /\ targetUID = 1000 /\ subuidRange.Size = MinSubIDRange
    /\ targetGID = 1000 /\ subgidRange.Size = MinSubIDRange
    /\ Len(uidMap) = 3 /\ Len(gidMap) = 3
    /\ Resolve(uidMap, MinSubIDRange) = {MinSubIDRange}
    /\ Resolve(gidMap, MinSubIDRange) = {MinSubIDRange}

TwoEntries(t, r) == << LinuxIDMapping(0, 1, r), LinuxIDMapping(t, 0, 1) >>

UnmappedBeyond(m, t, r) ==
    \A c \in ProbeIDs(t, r) \cup Around(HugeID) : (c >= r /\ c # t) => Resolve(m, c) = {}

\* C17: when target >= range_size the mapping has exactly two entries:
\* container IDs [0, range_size) from host IDs [1, range_size+1), and
\* container ID target from host ID 0; every container ID >= range_size
\* other than target is unmapped.
C17_BeyondRangeTwoEntries ==
    IDReturned =>
        /\ targetUID >= subuidRange.Size =>
                /\ uidMap = TwoEntries(targetUID, subuidRange.Size)
                /\ UnmappedBeyond(uidMap, targetUID, subuidRange.Size)
        /\ targetGID >= subgidRange.Size =>
                /\ gidMap = TwoEntries(targetGID, subgidRange.Size)
                /\ UnmappedBeyond(gidMap, targetGID, subgidRange.Size)

\* C17 witness: both targets beyond their ranges, one right at the range
\* size, and the IDs next to the targets unmapped.
C17_Witness ==
    /\ IDReturned
    /\ targetUID = subuidRange.Size
    /\ targetGID > subgidRange.Size + 1
    /\ Len(uidMap) = 2 /\ Len(gidMap) = 2
    /\ Resolve(uidMap, targetUID + 1) = {}
    /\ Resolve(gidMap, subgidRange.Size) = {}
    /\ Resolve(gidMap, targetGID) = {0}

Covered(m, c) == \E i \in 1..Len(m) : Covers(m[i], c)

\* C18: for every target ID and every range size >= 65536, container ID
\* 65534 ("nobody") is covered by some entry of the UID mapping and of the
\* GID mapping that getReverseUserMaps returns.
C18_NobodyCovered ==
    IDReturned => Covered(uidMap, 65534) /\ Covered(gidMap, 65534)

\* C18 witness: the smallest ranges allowed, one target beyond its range and
\* one target that is nobody itself.
C18_Witness ==
    /\ IDReturned
    /\ subuidRange.Size = MinSubIDRange /\ subgidRange.Size = MinSubIDRange
    /\ targetUID > MinSubIDRange
    /\ targetGID = 65534
    /\ Covers(uidMap[1], 65534)
    /\ Covers(gidMap[2], 65534)

(***************************************************************************)
(* Claims about PATH in getProcessEnv (checked under SpecEnv)              *)
(***************************************************************************)

\* The value of key k in a runtime map, or the empty string.
RuntimeValue(k) == IF k \in DOMAIN runtimeEnv THEN runtimeEnv[k] ELSE <<>>

\* The PATH the image declares (the last entry wins), or the empty string.
ImagePath ==
    IF EntryIndexes(imageEnv, PATH) = {} THEN <<>>
    ELSE SplitN2(imageEnv[CHOOSE i \in EntryIndexes(imageEnv, PATH) :
                            \A j \in EntryIndexes(imageEnv, PATH) : j <= i])[2]

\* C19: whenever a runtime layer sets PATH, to any value, the image-declared
\* PATH is replaced outright: the PATH entry of the list getProcessEnv
\* returns is built from the runtime value and does not contain the
\* image-declared PATH value.
C19_RuntimePathReplacesImagePath ==
    (envPc = "done" /\ PATH \in DOMAIN runtimeEnv) =>
        \A iv \in EnvValues(imageEnv, PATH) :
            \A v \in EnvValues(processEnv, PATH) : ~Contains(v, iv)

\* The current PATH value: the runtime PATH if the runtime map sets it,
\* else the image PATH.
CurrentPath == IF PATH \in DOMAIN runtimeEnv THEN runtimeEnv[PATH] ELSE ImagePath

\* C20: with current PATH value v, a non-empty runtime APPEND_PATH a and a
\* non-empty runtime PREPEND_PATH p, the PATH of the result is p:v:a (p:v or
\* v:a when only one of them is set), and APPEND_PATH and PREPEND_PATH given
\* by the runtime map are not made entries of the list: the entries of
\* these keys are those of the image environment.
C20_AppendPrependPath ==
    envPc = "done" =>
        LET a == RuntimeValue(APPEND_PATH)
            p == RuntimeValue(PREPEND_PATH)
        IN /\ (a # <<>> /\ p # <<>>) =>
                    EnvValues(processEnv, PATH) = {p \o <<":">> \o CurrentPath \o <<":">> \o a}
           /\ (a # <<>> /\ p = <<>>) =>
                    EnvValues(processEnv, PATH) = {CurrentPath \o <<":">> \o a}
           /\ (a = <<>> /\ p # <<>>) =>
                    EnvValues(processEnv, PATH) = {p \o <<":">> \o CurrentPath}
           /\ \A k \in {APPEND_PATH, PREPEND_PATH} :
                    /\ EnvValues(processEnv, k) = EnvValues(imageEnv, k)
                    /\ Cardinality(EntryIndexes(processEnv, k)) = Cardinality(EntryIndexes(imageEnv, k))

\* C20 witness: image PATH=/a and APPEND_PATH=/ia, runtime PATH=/b,
\* APPEND_PATH=/app and PREPEND_PATH=/pre give PATH=/pre:/b:/app and leave
\* the image's APPEND_PATH entry as the only one of its key.
C20_Witness ==
    /\ envPc = "done"
    /\ ImagePath = <<"/a">>
    /\ RuntimeValue(PATH) = <<"/b">>
    /\ RuntimeValue(APPEND_PATH) = <<"/app">>
    /\ RuntimeValue(PREPEND_PATH) = <<"/pre">>
    /\ EnvValues(processEnv, PATH) = {<<"/pre", ":", "/b", ":", "/app">>}
    /\ EnvValues(processEnv, APPEND_PATH) = {<<"/ia">>}

\* C21: two calls of getProcessEnv with the same image environment and the
\* same runtime environment return the same KEY=VALUE list with the entries
\* in the same order, whatever the number of runtime keys: the list this
\* call returned is the list every call on these arguments returns, whatever
\* order its loop over the runtime map takes.
C21_SameListEveryCall ==
    envPc = "done" =>
        \A order \in Orders(DOMAIN runtimeEnv) :
            getProcessEnv(imageEnv, runtimeEnv, order) = processEnv

\* C22: getProcess picks the process arguments by a strict priority chain:
\* for a native single-file image the action-script arguments, whatever the
\* action; otherwise for action "shell" the fixed shell invocation, whatever
\* the image entrypoint, the image default command, the explicit process
\* name and the explicit arguments; otherwise the result of getProcessArgs.
C22_ArgsPriorityChain ==
    ProcReturned =>
        /\ launcher.nativeSIF => process.Args = ep.ActionScriptArgs.args
        /\ (~launcher.nativeSIF /\ ep.Action = "shell") =>
                process.Args = <<"/bin/sh", "-c", ociShellScript>>
        /\ (~launcher.nativeSIF /\ ep.Action # "shell") =>
                process.Args = getProcessArgs(imgSpec, ep)

\* C22 witness: the shell action on an OCI image with an entrypoint, a
\* default command, a process name and arguments, and the arguments are the
\* shell invocation.
C22_Witness ==
    /\ ProcReturned
    /\ ~launcher.nativeSIF
    /\ ep.Action = "shell"
    /\ ep.Process = "/bin/bar" /\ ep.Args = <<"x", "y">>
    /\ imgSpec.Entrypoint = <<"/bin/foo">> /\ imgSpec.Cmd = <<"--flag">>
    /\ Len(process.Args) = 3 /\ process.Args[1] = "/bin/sh" /\ process.Args[2] = "-c"

\* The environment file is configured and reading or evaluating it fails.
EnvFileFails == cfg.EnvFile # "" /\ host.envFile.status # "ok"

\* Capability resolution fails: the host's effective set is asked for and
\* cannot be read.
CapabilitiesFail == ~cfg.NoPrivs /\ cfg.KeepPrivs /\ ~hostEffective.ok

\* C23: when an environment file is configured and cannot be read or
\* evaluated, getProcess returns an error and no process descriptor; the
\* same holds when capability resolution fails; and no call that returns
\* an error returns a descriptor.
C23_FailuresReturnNoProcess ==
    procPc = "done" =>
        /\ EnvFileFails => (procErr # "nil" /\ process = NoProcess)
        /\ CapabilitiesFail => (procErr # "nil" /\ process = NoProcess)
        /\ procErr # "nil" => process = NoProcess

\* C23 witness: an environment file that does not evaluate, with a variable
\* set by --env, and the call has returned the error of the file.
C23_Witness ==
    /\ procPc = "done"
    /\ cfg.EnvFile = "/env.sh"
    /\ host.envFile.status = "invalid"
    /\ <<"FOO">> \in DOMAIN cfg.Env
    /\ procErr = "process environment file"
    /\ process = NoProcess

(***************************************************************************)
(* Claims about the package state (checked under SpecLaunches)             *)
(***************************************************************************)

\* The namespace list and the capability sets a launch gets from its own
\* options alone.
OwnNamespaces(l) ==
    addNamespaces(minimalSpec, launchOpts[l].ns, LaunchRootless).spec.Namespaces.elems

OwnCaps(l) ==
    getProcessCapabilities(launchOpts[l].cfg, launchOpts[l].targetUID,
                           [ok |-> TRUE, caps |-> <<>>]).caps

\* C24: after any sequence, sequential or interleaved between two
\* launches, of minimalSpec, addNamespaces and getProcessCapabilities calls,
\* defaultNamespaces is still IPC, PID, Mount and the default capability
\* list is unchanged, and the namespace list and the capability sets of
\* each launch are those its own options give.
C24_PackageStateUnchanged ==
    /\ pkgNamespaces = <<"ipc", "pid", "mount">>
    /\ pkgCaps = <<"CAP_CHOWN", "CAP_KILL">>
    /\ \A l \in Launches :
        /\ launchPc[l] \in {"ns", "caps", "done"} =>
                View(launchSpec[l], pkgNamespaces) = OwnNamespaces(l)
        /\ launchPc[l] = "done" => launchCaps[l] = OwnCaps(l)

\* C24 witness: both launches are done, each having appended namespaces and
\* a capability of its own while the other was under way.
C24_Witness ==
    /\ launchPc["A"] = "done" /\ launchPc["B"] = "done"
    /\ launchOpts["A"].ns.Net /\ ~launchOpts["A"].ns.UTS
    /\ launchOpts["B"].ns.UTS /\ ~launchOpts["B"].ns.Net
    /\ launchOpts["A"].cfg.AddCaps = <<"CAP_SYS_ADMIN">>
    /\ launchOpts["B"].cfg.AddCaps = <<>>
    /\ View(launchSpec["A"], pkgNamespaces) = <<"ipc", "pid", "mount", "network">>
    /\ View(launchSpec["B"], pkgNamespaces) = <<"ipc", "pid", "mount", "uts">>
    /\ launchCaps["A"].Bounding = <<"CAP_CHOWN", "CAP_KILL", "CAP_SYS_ADMIN">>
    /\ launchCaps["B"].Bounding = <<"CAP_CHOWN", "CAP_KILL">>

(***************************************************************************)
(* Claims about apptainerEnvMap (checked under SpecEnvMap)                 *)
(***************************************************************************)

\* The name and the value of a host variable, split at its first "=".
VarName(entry) == SubSeq(entry, 1, IndexOf(entry, "=") - 1)

VarValue(entry) == SubSeq(entry, IndexOf(entry, "=") + 1, Len(entry))

\* The host variables whose name starts with APPTAINERENV_.
Prefixed == {i \in 1..Len(osEnviron) : VarName(osEnviron[i])[1] = "APPTAINERENV_"}

\* C25: apptainerEnvMap returns exactly one entry K -> V for every host
\* variable named APPTAINERENV_K with value V (prefix stripped, value kept,
\* "=" in it included), and no entry for a host variable that does not
\* carry the prefix.
C25_PrefixedVariablesOnly ==
    mapPc = "done" =>
        /\ \A i \in Prefixed :
                /\ Tail(VarName(osEnviron[i])) \in DOMAIN apptainerEnv
                /\ apptainerEnv[Tail(VarName(osEnviron[i]))] = VarValue(osEnviron[i])
        /\ \A k \in DOMAIN apptainerEnv :
                \E i \in Prefixed : Tail(VarName(osEnviron[i])) = k
        /\ Cardinality(DOMAIN apptainerEnv) = Cardinality(Prefixed)

\* C25 witness: APPTAINERENV_FOO=a=b next to FOO=bar and
\* MY_APPTAINERENV_FOO=bar, and the map is FOO -> a=b alone.
C25_Witness ==
    /\ mapPc = "done"
    /\ osEnviron = << KeyValue(<<"FOO">>, <<"bar">>),
                    KeyValue(<<"MY_", "APPTAINERENV_", "FOO">>, <<"bar">>),
                    KeyValue(<<"APPTAINERENV_", "FOO">>, <<"a", "=", "b">>) >>
    /\ apptainerEnv = OneKey(<<"FOO">>, <<"a", "=", "b">>)

(***************************************************************************)
(* More claims about the capability sets (checked under SpecCaps)          *)
(***************************************************************************)

FiveSets == {caps.Permitted, caps.Effective, caps.Inheritable, caps.Bounding, caps.Ambient}

\* C26: a capability named in the drop list is in none of the five sets
\* getProcessCapabilities returns, whether it comes from the base set, from
\* the add list or from both, and for any target UID.
C26_DroppedNeverReturned ==
    CapReturned => \A set \in FiveSets : Range(set) \cap Range(cfg.DropCaps) = {}

\* C26 witness: a non-root target, CAP_CHOWN in the default base, in the add
\* list and in the drop list, and another added name that is kept.
C26_Witness ==
    /\ CapReturned /\ capTargetUID = 1000
    /\ ~cfg.NoPrivs /\ ~cfg.KeepPrivs
    /\ cfg.AddCaps = <<"CAP_CHOWN", "CAP_SYS_ADMIN">>
    /\ cfg.DropCaps = <<"CAP_CHOWN">>
    /\ caps.Bounding = <<"CAP_KILL", "CAP_SYS_ADMIN">>
    /\ caps.Ambient = <<"CAP_SYS_ADMIN">>

(***************************************************************************)
(* Claims about the host side of the reverse ID mapping (checked under     *)
(* SpecIDMap)                                                              *)
(***************************************************************************)

HostIntersect(a, b) ==
    LET lo == IF a.HostID >= b.HostID THEN a.HostID ELSE b.HostID
        ea == a.HostID + a.Size
        eb == b.HostID + b.Size
        hi == IF ea <= eb THEN ea ELSE eb
    IN lo < hi

HostDisjoint(m) == \A i, j \in 1..Len(m) : i # j => ~HostIntersect(m[i], m[j])

\* Every host ID an entry refers to is one of 0..r.
HostWithin(m, r) ==
    \A i \in 1..Len(m) : m[i].Size > 0 => (m[i].HostID >= 0 /\ m[i].HostID + m[i].Size - 1 <= r)

\* C27: in every mapping reverseMapByRange returns, the host-ID ranges
\* [HostID, HostID+Size) of the entries are pairwise disjoint and every host
\* ID referred to lies in [0, range_size].
C27_HostRangesDisjointWithin ==
    IDReturned =>
        /\ HostDisjoint(uidMap) /\ HostWithin(uidMap, subuidRange.Size)
        /\ HostDisjoint(gidMap) /\ HostWithin(gidMap, subgidRange.Size)

\* C27 witness: a three-entry map whose host ranges meet end to end and end
\* at the range size, and a two-entry map that does the same.
C27_Witness ==
    /\ IDReturned
    /\ Len(uidMap) = 3 /\ targetUID = 1000
    /\ uidMap[2].HostID + uidMap[2].Size = uidMap[1].HostID
    /\ uidMap[1].HostID + uidMap[1].Size = uidMap[3].HostID
    /\ uidMap[3].HostID + uidMap[3].Size - 1 = subuidRange.Size
    /\ Len(gidMap) = 2
    /\ gidMap[1].HostID + gidMap[1].Size - 1 = subgidRange.Size

(***************************************************************************)
(* Claims about a failing addNamespaces (checked under SpecNamespaces)     *)
(***************************************************************************)

NsFailed == nsPc = "done" /\ nsErr # "nil"

\* C28: if addNamespaces returns an error, the namespace list of the spec is
\* the list it had before the call (that of minimalSpec), whatever the other
\* flags are; and the call fails only when the User flag is set.
C28_ErrorLeavesListUnchanged ==
    NsFailed => (ns.User /\ Namespaces = minimalSpec.Namespaces.elems)

(***************************************************************************)
(* Claims about the bundle lock (checked under SpecBundle)                 *)
(***************************************************************************)

\* C29: of the calls of lockBundle that processes make on one unlocked
\* bundle directory, under every interleaving of their steps, at most one
\* returns success: until a releaseBundle succeeds, no second process has
\* had nil from lockBundle.
C29_AtMostOneLockSucceeds == Cardinality(lockHolders) <= 1

(***************************************************************************)
(* Claims about the section locks (checked under SpecSections)             *)
(***************************************************************************)

\* For each path no section is in both maps and none is twice in writeLocks.
SectionMapsConsistent ==
    \A f \in Paths :
        /\ \A k \in 1..Len(writeLocks[f]) : ~Recorded(readLocks[f], writeLocks[f][k])
        /\ \A k, n \in 1..Len(writeLocks[f]) :
                (k # n) => ~Recorded(<<writeLocks[f][k]>>, writeLocks[f][n])

\* The request of the call in progress is for a section this process has
\* recorded in a way that excludes it.
SectionConflict ==
    IF secImage.Writable
    THEN Recorded(readLocks[secImage.Path], secSection)
            \/ Recorded(writeLocks[secImage.Path], secSection)
    ELSE Recorded(writeLocks[secImage.Path], secSection)

LockSectionStep == secPc = "call" /\ secPc' = "done"

ConflictRejected ==
    LockSectionStep /\ SectionConflict =>
        (secErr' # "nil" /\ UNCHANGED <<readLocks, writeLocks>>)

FailedLockRecordsNothing ==
    LockSectionStep /\ secLockErr # "nil" => UNCHANGED <<readLocks, writeLocks>>

\* C30: after any sequence of lockSection calls, for each image path no
\* section is recorded in both readLocks and writeLocks and none twice in
\* writeLocks; a writable request on a section already recorded for reading
\* or for writing, and a read-only request on a section recorded for
\* writing, return an error and record nothing; and a request whose
\* byte-range lock fails or is unsupported records nothing.
C30_SectionLocksExclusive ==
    /\ []SectionMapsConsistent
    /\ [][ConflictRejected]_vars
    /\ [][FailedLockRecordsNothing]_vars

\* The parts of C30 one by one.
SectionConflictsRejected == [][ConflictRejected]_vars

SectionFailedLocksRecordNothing == [][FailedLockRecordsNothing]_vars

====
